---- MODULE Spec2Model ----
(***************************************************************************)
(* Model of the ToDoList_App service layer: ProjectManager, TaskManager,   *)
(* the validators, the auto-close job and its scheduler loop, over a       *)
(* transactional store of projects and tasks.                              *)
(*                                                                         *)
(* Strings are sequences of one-character strings, so that lower(),        *)
(* split(), strip(), strptime() and ILIKE are computed, not assumed.       *)
(* Time is counted in ticks of IntervalMinutes minutes since               *)
(* 2024-01-01T00:00 UTC.                                                   *)
(***************************************************************************)
EXTENDS Integers, Sequences, FiniteSets, TLC

VARIABLES projects, tasks, nextProjectId, nextTaskId, clock, last, sess, sched

vars == <<projects, tasks, nextProjectId, nextTaskId, clock, last, sess, sched>>

(***************************************************************************)
(* Bounds of the model                                                     *)
(***************************************************************************)
MaxClock == 1
MaxTaskId == 2
MaxProjectId == 3

(***************************************************************************)
(* Program constants                                                       *)
(***************************************************************************)
MAX_NUMBER_OF_PROJECTS == 2
NameMaxWords == 30
DescriptionMaxWords == 150
IntervalMinutes == 15
MinutesPerDay == 1440

\* Python's None where a string is expected: a value no string equals
None == <<"<None>">>

\* A nullable column or optional number is a set of at most one value
Null == {}

Some(v) == {v}

(***************************************************************************)
(* Characters and strings                                                  *)
(***************************************************************************)
UpperAlphabet ==
  <<"A","B","C","D","E","F","G","H","I","J","K","L","M",
    "N","O","P","Q","R","S","T","U","V","W","X","Y","Z">>

LowerAlphabet ==
  <<"a","b","c","d","e","f","g","h","i","j","k","l","m",
    "n","o","p","q","r","s","t","u","v","w","x","y","z">>

Whitespace == {" ", "\t", "\n", "\r"}

Digits == <<"0","1","2","3","4","5","6","7","8","9">>

LowerChar(c) ==
  IF \E i \in 1..26 : UpperAlphabet[i] = c
    THEN LowerAlphabet[CHOOSE i \in 1..26 : UpperAlphabet[i] = c]
    ELSE c

Lower(s) == [i \in 1..Len(s) |-> LowerChar(s[i])]

IsBlank(s) == \A i \in 1..Len(s) : s[i] \in Whitespace

\* len(s.split()): the number of maximal runs of non-whitespace characters
WordCount(s) ==
  Cardinality({i \in 1..Len(s) :
                 /\ s[i] \notin Whitespace
                 /\ (i = 1 \/ s[i-1] \in Whitespace)})

(***************************************************************************)
(* Validator                                                               *)
(***************************************************************************)
OkResult == [ok |-> TRUE, error |-> "None"]

ErrResult(e) == [ok |-> FALSE, error |-> e]

\* Mutant: a name of exactly max_words words is refused
validate_name_less_than(name, max_words) ==
  IF name = None \/ name = <<>> \/ IsBlank(name)
    THEN ErrResult("Name cannot be empty")
    ELSE IF WordCount(name) >= max_words
      THEN ErrResult("Name must be less than max_words words")
      ELSE OkResult

validate_name(name, max_words) ==
  IF name = None \/ name = <<>> \/ IsBlank(name)  \* not name or not name.strip()
    THEN ErrResult("Name cannot be empty")
    ELSE IF WordCount(name) > max_words
      THEN ErrResult("Name must be less than max_words words")
      ELSE OkResult

validate_description(description, max_words) ==
  IF description = None \/ IsBlank(description)
    THEN OkResult
    ELSE IF WordCount(description) > max_words
      THEN ErrResult("Description must be less than max_words words")
      ELSE OkResult

\* int() of a run of decimal digits; -1 when s is not one
RECURSIVE DigitsValue(_)
DigitsValue(s) ==
  IF s = <<>> THEN 0
  ELSE LET c == s[Len(s)]
           rest == DigitsValue(SubSeq(s, 1, Len(s) - 1))
       IN IF rest < 0 \/ ~(\E i \in 1..10 : Digits[i] = c)
            THEN -1
            ELSE 10 * rest + (CHOOSE i \in 1..10 : Digits[i] = c) - 1

IsLeap(y) == (y % 4 = 0) /\ ((y % 100 # 0) \/ (y % 400 = 0))

DaysInMonth(y, m) ==
  IF m = 2 THEN (IF IsLeap(y) THEN 29 ELSE 28)
  ELSE IF m \in {4, 6, 9, 11} THEN 30 ELSE 31

RECURSIVE DaysBeforeMonth(_, _)
DaysBeforeMonth(y, m) ==
  IF m = 1 THEN 0 ELSE DaysBeforeMonth(y, m - 1) + DaysInMonth(y, m - 1)

\* date.toordinal(): days since 0001-01-01, that day being 1
ToOrdinal(y, m, d) ==
  365 * (y - 1) + ((y - 1) \div 4) - ((y - 1) \div 100) + ((y - 1) \div 400)
    + DaysBeforeMonth(y, m) + d

\* The clock's origin, 2024-01-01T00:00 UTC
EpochOrdinal == ToOrdinal(2024, 1, 1)

TicksPerDay == MinutesPerDay \div IntervalMinutes

\* datetime.strptime(date_str, '%Y-%m-%d'): four-digit year, one- or
\* two-digit month and day, a real calendar date; the result is midnight
\* of that day, in ticks since the epoch
validate_date(date_str) ==
  LET dashes == {i \in 1..Len(date_str) : date_str[i] = "-"}
  IN IF Cardinality(dashes) # 2
       THEN [ok |-> FALSE, error |-> "Invalid date format. Use YYYY-MM-DD", date |-> Null]
       ELSE
         LET i1 == CHOOSE i \in dashes : \A j \in dashes : i <= j
             i2 == CHOOSE i \in dashes : \A j \in dashes : j <= i
             ys == SubSeq(date_str, 1, i1 - 1)
             ms == SubSeq(date_str, i1 + 1, i2 - 1)
             ds == SubSeq(date_str, i2 + 1, Len(date_str))
             y == DigitsValue(ys)
             m == DigitsValue(ms)
             d == DigitsValue(ds)
         IN IF /\ Len(ys) = 4 /\ Len(ms) \in {1, 2} /\ Len(ds) \in {1, 2}
               /\ y >= 1 /\ m \in 1..12 /\ d >= 1 /\ d <= DaysInMonth(y, m)
              THEN [ok |-> TRUE, error |-> "None",
                    date |-> Some((ToOrdinal(y, m, d) - EpochOrdinal) * TicksPerDay)]
              ELSE [ok |-> FALSE, error |-> "Invalid date format. Use YYYY-MM-DD", date |-> Null]

TOKEN_TODO == <<"t","o","-","d","o">>
TOKEN_DOING == <<"d","o","i","n","g">>
TOKEN_IN_PROGRESS == <<"i","n","-","p","r","o","g","r","e","s","s">>
TOKEN_DONE == <<"d","o","n","e">>
TOKEN_CANCELLED == <<"c","a","n","c","e","l","l","e","d">>

validate_status(status) ==
  IF Lower(status) \notin {TOKEN_TODO, TOKEN_DOING, TOKEN_DONE}
    THEN ErrResult("Invalid status. Must be one of: to-do, doing, done")
    ELSE OkResult

(***************************************************************************)
(* TaskStatus and the status map of TaskManager                            *)
(***************************************************************************)
TODO == "to-do"
IN_PROGRESS == "in-progress"
DONE == "done"
CANCELLED == "cancelled"

TaskStatus == {TODO, IN_PROGRESS, DONE, CANCELLED}

_map_status_to_enum(status) ==
  LET status_lower == Lower(status)
  IN IF status_lower = TOKEN_TODO THEN TODO
     ELSE IF status_lower = TOKEN_DOING THEN IN_PROGRESS
     ELSE IF status_lower = TOKEN_IN_PROGRESS THEN IN_PROGRESS
     ELSE IF status_lower = TOKEN_DONE THEN DONE
     ELSE IF status_lower = TOKEN_CANCELLED THEN CANCELLED
     ELSE TODO

(***************************************************************************)
(* The store's ILIKE: % matches any run of characters, _ any one           *)
(* character, a backslash takes the next pattern character literally       *)
(* (PostgreSQL, the configured database), letters match in either case.    *)
(***************************************************************************)
RECURSIVE LikeMatch(_, _)
LikeMatch(s, pat) ==
  IF pat = <<>> THEN s = <<>>
  ELSE IF Head(pat) = "%"
    THEN \E k \in 0..Len(s) : LikeMatch(SubSeq(s, k + 1, Len(s)), Tail(pat))
  ELSE IF Head(pat) = "_"
    THEN s # <<>> /\ LikeMatch(Tail(s), Tail(pat))
  ELSE IF Head(pat) = "\\"
    THEN /\ Len(pat) >= 2
         /\ s # <<>>
         /\ Head(s) = pat[2]
         /\ LikeMatch(Tail(s), Tail(Tail(pat)))
  ELSE s # <<>> /\ Head(s) = Head(pat) /\ LikeMatch(Tail(s), Tail(pat))

ilike(column, pattern) == LikeMatch(Lower(column), Lower(pattern))

(***************************************************************************)
(* The store: rows of the projects and tasks tables, keyed by id           *)
(***************************************************************************)
Project(id, name, description, now) ==
  [id |-> id, name |-> name, description |-> description,
   created_at |-> now, updated_at |-> now]

Task(id, name, project_id, deadline, description, status, now) ==
  [id |-> id, name |-> name, description |-> description, status |-> status,
   deadline |-> deadline, project_id |-> project_id,
   created_at |-> now, updated_at |-> now]

\* db.delete(row); db.commit()
DeleteRows(table, ids) == [i \in (DOMAIN table) \ ids |-> table[i]]

\* Mutant: the UPDATE stamps created_at as well
UpdateRowStampingCreated(table, id, row, now) ==
  IF row = table[id] THEN table
  ELSE [table EXCEPT ![id] = [row EXCEPT !.updated_at = now, !.created_at = now]]

\* A flushed UPDATE: onupdate=utc_now stamps updated_at when a column changed
UpdateRow(table, id, row, now) ==
  IF row = table[id] THEN table
  ELSE [table EXCEPT ![id] = [row EXCEPT !.updated_at = now]]

\* Mutant: the cascade reaches the tasks of every project
TasksOfAnyProject(tbl, project_id) == DOMAIN tbl

\* Project.tasks with cascade="all, delete-orphan"
TasksOf(tbl, project_id) == {i \in DOMAIN tbl : tbl[i].project_id = project_id}

(***************************************************************************)
(* The record of the most recent service call                              *)
(***************************************************************************)
NoCall ==
  [op |-> "none", outcome |-> "none", error |-> "None", ret |-> 0, now |-> 0,
   id |-> 0, name |-> None, description |-> None,
   project_id |-> 0, status |-> None, due_date |-> None, done |-> Null,
   pre_status |-> Null, listed |-> <<>>, counts |-> <<>>, row |-> Null,
   kind |-> "None", max_words |-> 0, selected |-> {}, repository |-> "None",
   http |-> 0,
   fault |-> "none", pre_projects |-> <<>>, pre_tasks |-> <<>>,
   prev_close |-> Null,
   since_close |-> Null]

\* id, name, description, project_id, status, due_date, done: the arguments
\* of the call (id is the project or task the call names or creates)
\* pre_status: the status an edit_task call found on its task
\* listed: the ids of the rows a list call returned, in their order
\* counts: the task count of each project list_projects returned, in order
\* row: the row get_task returned
\* kind: the class of the exception the call raised
\* max_words: the limit a validator was called with
\* selected: the ids of the tasks a repository's list_overdue returned
\* repository: the repository class whose method was called
\* http: the status of the response when a call that raised was made
\* through its route of the HTTP API (0 for a call that has no route)
\* pre_projects: the projects table as a ProjectManager call found it
\* pre_tasks: the tasks table as an auto-close run or delete_project found it
\* prev_close: since_close as an auto-close run found it
\* since_close: the reference time of the last committed auto-close run
\* after which no task was created, edited or deleted
Call(op, outcome, error, since) ==
  [NoCall EXCEPT !.op = op, !.outcome = outcome, !.error = error,
                 !.now = clock, !.since_close = since]

Returned(op, since) == Call(op, "returned", "None", since)

\* The class of the exception behind an error: every raise statement of
\* ProjectManager and TaskManager constructs utils.validators.ValidationError;
\* a store failure is the exception of the database layer, re-raised
ExceptionClass(error) ==
  IF error = "store failure" THEN "SQLAlchemyError"
  ELSE IF error = "IntegrityError" THEN "IntegrityError"
  ELSE "ValidationError"

\* The classes an exception of that class is an instance of:
\* utils.validators.ValidationError derives from Exception alone, the
\* exceptions of the database layer from SQLAlchemyError
ClassesOf(kind) ==
  IF kind = "ValidationError"
    THEN {"todo_app.utils.validators.ValidationError", "Exception"}
  ELSE IF kind = "IntegrityError"
    THEN {"sqlalchemy.exc.IntegrityError", "sqlalchemy.exc.SQLAlchemyError", "Exception"}
  ELSE {"sqlalchemy.exc.SQLAlchemyError", "Exception"}

\* The service calls that routers/projects.py and routers/tasks.py wrap in a
\* try statement
Routes ==
  {"create_project", "edit_project", "delete_project",
   "create_task", "edit_task", "delete_task", "list_tasks"}

\* The except clauses of a route in their order, as <<class, status>>; the
\* classes are those the routers import from todo_app.exceptions
ExceptClauses(op) ==
  IF op = "create_project"
    THEN << <<"todo_app.exceptions.service_exceptions.ValidationError", 400>>,
            <<"todo_app.exceptions.service_exceptions.DuplicateEntityError", 409>>,
            <<"todo_app.exceptions.service_exceptions.LimitExceededError", 400>>,
            <<"todo_app.exceptions.repository_exceptions.RepositoryError", 500>> >>
  ELSE IF op \in {"delete_project", "delete_task"}
    THEN << <<"todo_app.exceptions.service_exceptions.ValidationError", 404>>,
            <<"todo_app.exceptions.repository_exceptions.RepositoryError", 500>> >>
  ELSE << <<"todo_app.exceptions.service_exceptions.ValidationError", 400>>,
          <<"todo_app.exceptions.repository_exceptions.RepositoryError", 500>> >>

\* The status of the response to a request whose service call raised: that
\* of the first except clause the exception is an instance of; an exception
\* that no clause catches is no TodoAppException either, so the handler of
\* app/main.py does not apply and the server answers 500
ResponseStatus(op, kind) ==
  IF op \notin Routes THEN 0
  ELSE LET clauses == ExceptClauses(op)
           matching == {k \in 1..Len(clauses) : clauses[k][1] \in ClassesOf(kind)}
       IN IF matching = {} THEN 500
          ELSE clauses[CHOOSE k \in matching : \A j \in matching : k <= j][2]

Raised(op, error) ==
  [Call(op, "raised", error, last.since_close)
     EXCEPT !.kind = ExceptionClass(error),
            !.http = ResponseStatus(op, ExceptionClass(error))]

(***************************************************************************)
(* ProjectManager                                                          *)
(***************************************************************************)
_is_name_exists(db, name, exclude_id) ==
  \E i \in DOMAIN db : ilike(db[i].name, name) /\ i \notin exclude_id

\* Mutant: the limit compared with > instead of >=
CreateProjectErrorOffByOne(db, name, description) ==
  IF Cardinality(DOMAIN db) > MAX_NUMBER_OF_PROJECTS
    THEN "Maximum number of projects reached"
  ELSE IF ~validate_name(name, NameMaxWords).ok
    THEN validate_name(name, NameMaxWords).error
  ELSE IF _is_name_exists(db, name, Null)
    THEN "Project with name already exists"
  ELSE validate_description(description, DescriptionMaxWords).error

\* The checks of create_project in order; "None" when all pass
CreateProjectError(db, name, description) ==
  IF Cardinality(DOMAIN db) >= MAX_NUMBER_OF_PROJECTS
    THEN "Maximum number of projects reached"
  ELSE IF ~validate_name(name, NameMaxWords).ok
    THEN validate_name(name, NameMaxWords).error
  ELSE IF _is_name_exists(db, name, Null)
    THEN "Project with name already exists"
  ELSE validate_description(description, DescriptionMaxWords).error

create_project(name, description) ==
  /\ nextProjectId <= MaxProjectId
  /\ LET error == CreateProjectError(projects, name, description)
     IN IF error = "None"
          THEN /\ projects' = projects @@
                     (nextProjectId :> Project(nextProjectId, name, description, clock))
               /\ nextProjectId' = nextProjectId + 1
               /\ last' = [Returned("create_project", last.since_close)
                             EXCEPT !.id = nextProjectId, !.name = name,
                                    !.description = description,
                                    !.pre_projects = projects]
          ELSE /\ last' = [Raised("create_project", error)
                             EXCEPT !.name = name, !.description = description,
                                    !.pre_projects = projects]
               /\ UNCHANGED <<projects, nextProjectId>>
  /\ UNCHANGED <<tasks, nextTaskId, clock, sess, sched>>

\* The checks of edit_project in order; "None" when all pass
EditProjectError(db, project_id, name, description) ==
  IF project_id \notin DOMAIN db
    THEN "Project with ID not found"
  ELSE IF name # None /\ ~validate_name(name, NameMaxWords).ok
    THEN validate_name(name, NameMaxWords).error
  ELSE IF name # None /\ _is_name_exists(db, name, Some(project_id))
    THEN "Project with name already exists"
  ELSE IF description # None
    THEN validate_description(description, DescriptionMaxWords).error
  ELSE "None"

EditedProject(row, name, description) ==
  [row EXCEPT !.name = IF name # None THEN name ELSE @,
              !.description = IF description # None THEN description ELSE @]

edit_project(project_id, name, description) ==
  /\ LET error == EditProjectError(projects, project_id, name, description)
     IN IF error = "None"
          THEN /\ projects' = UpdateRow(projects, project_id,
                     EditedProject(projects[project_id], name, description), clock)
               /\ last' = [Returned("edit_project", last.since_close)
                             EXCEPT !.id = project_id, !.name = name,
                                    !.description = description,
                                    !.pre_projects = projects]
          ELSE /\ last' = [Raised("edit_project", error)
                             EXCEPT !.id = project_id, !.name = name,
                                    !.description = description,
                                    !.pre_projects = projects]
               /\ UNCHANGED projects
  /\ UNCHANGED <<tasks, nextProjectId, nextTaskId, clock, sess, sched>>

delete_project(project_id) ==
  /\ IF project_id \in DOMAIN projects
       THEN /\ projects' = DeleteRows(projects, {project_id})
            /\ tasks' = DeleteRows(tasks, TasksOf(tasks, project_id))
            /\ last' = [Returned("delete_project",
                                 IF TasksOf(tasks, project_id) = {}
                                   THEN last.since_close ELSE Null)
                          EXCEPT !.id = project_id, !.pre_projects = projects,
                                 !.pre_tasks = tasks]
       ELSE /\ last' = [Raised("delete_project", "Project with ID not found")
                          EXCEPT !.id = project_id, !.pre_projects = projects,
                                 !.pre_tasks = tasks]
            /\ UNCHANGED <<projects, tasks>>
  /\ UNCHANGED <<nextProjectId, nextTaskId, clock, sess, sched>>

(***************************************************************************)
(* TaskManager                                                             *)
(***************************************************************************)
\* Mutant: create_task without the lookup of its project
CreateTaskErrorNoProject(pdb, project_id, title, due_date, description, status) ==
  IF ~validate_name(title, NameMaxWords).ok
    THEN validate_name(title, NameMaxWords).error
  ELSE IF ~validate_description(description, DescriptionMaxWords).ok
    THEN validate_description(description, DescriptionMaxWords).error
  ELSE IF status # None /\ ~validate_status(status).ok
    THEN validate_status(status).error
  ELSE IF due_date # None /\ due_date # <<>>
    THEN validate_date(due_date).error
  ELSE "None"

\* Mutant: the status is checked before the title
CreateTaskErrorStatusFirst(pdb, project_id, title, due_date, description, status) ==
  IF project_id \notin DOMAIN pdb
    THEN "Project with ID not found"
  ELSE IF status # None /\ ~validate_status(status).ok
    THEN validate_status(status).error
  ELSE IF ~validate_name(title, NameMaxWords).ok
    THEN validate_name(title, NameMaxWords).error
  ELSE IF ~validate_description(description, DescriptionMaxWords).ok
    THEN validate_description(description, DescriptionMaxWords).error
  ELSE IF due_date # None /\ due_date # <<>>
    THEN validate_date(due_date).error
  ELSE "None"

\* The checks of create_task in order; "None" when all pass
CreateTaskError(pdb, project_id, title, due_date, description, status) ==
  IF project_id \notin DOMAIN pdb
    THEN "Project with ID not found"
  ELSE IF ~validate_name(title, NameMaxWords).ok
    THEN validate_name(title, NameMaxWords).error
  ELSE IF ~validate_description(description, DescriptionMaxWords).ok
    THEN validate_description(description, DescriptionMaxWords).error
  ELSE IF status # None /\ ~validate_status(status).ok
    THEN validate_status(status).error
  ELSE IF due_date # None /\ due_date # <<>>
    THEN validate_date(due_date).error
  ELSE "None"

\* Mutant: the status token is ignored at creation
CreateTaskStatusIgnored(status, done) == IF done THEN DONE ELSE TODO

CreateTaskStatus(status, done) ==
  IF done THEN DONE
  ELSE IF status # None THEN _map_status_to_enum(status) ELSE TODO

CreateTaskDeadline(due_date) ==
  IF due_date # None /\ due_date # <<>> THEN validate_date(due_date).date ELSE Null

create_task(project_id, title, due_date, description, status, done) ==
  /\ nextTaskId <= MaxTaskId
  /\ LET error == CreateTaskError(projects, project_id, title, due_date,
                                  description, status)
     IN IF error = "None"
          THEN /\ tasks' = tasks @@
                     (nextTaskId :> Task(nextTaskId, title, project_id,
                                         CreateTaskDeadline(due_date), description,
                                         CreateTaskStatus(status, done), clock))
               /\ nextTaskId' = nextTaskId + 1
               /\ last' = [Returned("create_task", Null)
                             EXCEPT !.id = nextTaskId, !.name = title,
                                    !.description = description,
                                    !.project_id = project_id, !.status = status,
                                    !.due_date = due_date, !.done = Some(done)]
          ELSE /\ last' = [Raised("create_task", error)
                             EXCEPT !.name = title, !.description = description,
                                    !.project_id = project_id, !.status = status,
                                    !.due_date = due_date, !.done = Some(done)]
               /\ UNCHANGED <<tasks, nextTaskId>>
  /\ UNCHANGED <<projects, nextProjectId, clock, sess, sched>>

\* Mutant: the lookup without the ownership check
TaskLookupErrorNoOwner(pdb, tdb, project_id, task_id) ==
  IF project_id \notin DOMAIN pdb
    THEN "Project with ID not found"
  ELSE IF task_id \notin DOMAIN tdb
    THEN "Task with ID not found"
  ELSE "None"

\* The existence and ownership checks shared by edit_task and delete_task
TaskLookupError(pdb, tdb, project_id, task_id) ==
  IF project_id \notin DOMAIN pdb
    THEN "Project with ID not found"
  ELSE IF task_id \notin DOMAIN tdb
    THEN "Task with ID not found"
  ELSE IF tdb[task_id].project_id # project_id
    THEN "Task does not belong to project"
  ELSE "None"

\* The checks of edit_task in order; "None" when all pass
EditTaskError(pdb, tdb, project_id, task_id, title, description, status, due_date, done) ==
  IF TaskLookupError(pdb, tdb, project_id, task_id) # "None"
    THEN TaskLookupError(pdb, tdb, project_id, task_id)
  ELSE IF title # None /\ ~validate_name(title, NameMaxWords).ok
    THEN validate_name(title, NameMaxWords).error
  ELSE IF description # None
          /\ ~validate_description(description, DescriptionMaxWords).ok
    THEN validate_description(description, DescriptionMaxWords).error
  ELSE IF done = Null /\ status # None /\ ~validate_status(status).ok
    THEN validate_status(status).error
  ELSE IF due_date # None
    THEN validate_date(due_date).error
  ELSE "None"

\* Mutant: a call with done=False always resets the status to to-do
EditTaskStatusDoneOnly(current, status, done) ==
  IF done # Null
    THEN IF TRUE \in done THEN DONE ELSE TODO
    ELSE IF status # None THEN _map_status_to_enum(status) ELSE current

EditTaskStatus(current, status, done) ==
  IF done # Null
    THEN IF TRUE \in done
           THEN DONE
           ELSE IF status # None THEN _map_status_to_enum(status) ELSE TODO
    ELSE IF status # None THEN _map_status_to_enum(status) ELSE current

\* Mutant: an omitted description overwrites the stored one
EditedTaskOverwriting(row, title, description, status, due_date, done) ==
  [row EXCEPT !.name = IF title # None THEN title ELSE @,
              !.description = description,
              !.status = EditTaskStatus(@, status, done),
              !.deadline = IF due_date # None THEN validate_date(due_date).date ELSE @]

EditedTask(row, title, description, status, due_date, done) ==
  [row EXCEPT !.name = IF title # None THEN title ELSE @,
              !.description = IF description # None THEN description ELSE @,
              !.status = EditTaskStatus(@, status, done),
              !.deadline = IF due_date # None THEN validate_date(due_date).date ELSE @]

\* The session's task object when edit_task raises: each field whose check
\* passed before the failing one has been assigned, nothing is flushed
PendingTask(row, title, description, status, due_date, done) ==
  LET title_ok == title = None \/ validate_name(title, NameMaxWords).ok
      description_ok ==
        title_ok /\ (description = None
                       \/ validate_description(description, DescriptionMaxWords).ok)
      status_ok ==
        description_ok /\ (done # Null \/ status = None \/ validate_status(status).ok)
  IN [row EXCEPT
        !.name = IF title # None /\ title_ok THEN title ELSE @,
        !.description = IF description # None /\ description_ok
                          THEN description ELSE @,
        !.status = IF status_ok THEN EditTaskStatus(@, status, done) ELSE @]

\* Mutant: the assignments made before the failing check reach the store
PendingFlushed(tdb, task_id, row) == [tdb EXCEPT ![task_id] = row]

\* db.rollback() in the except clause: the pending assignments are discarded
PendingDiscarded(tdb, task_id, row) == tdb

edit_task(project_id, task_id, title, description, status, due_date, done) ==
  /\ LET error == EditTaskError(projects, tasks, project_id, task_id, title,
                                description, status, due_date, done)
         call == [NoCall EXCEPT !.id = task_id, !.name = title,
                                !.description = description,
                                !.project_id = project_id, !.status = status,
                                !.due_date = due_date, !.done = done,
                                !.pre_status = IF task_id \in DOMAIN tasks
                                                 THEN Some(tasks[task_id].status)
                                                 ELSE Null]
     IN IF error = "None"
          THEN /\ tasks' = UpdateRow(tasks, task_id,
                     EditedTask(tasks[task_id], title, description, status,
                                due_date, done), clock)
               /\ last' = [call EXCEPT !.op = "edit_task", !.outcome = "returned",
                                       !.now = clock]
          ELSE /\ tasks' = IF TaskLookupError(projects, tasks, project_id,
                                              task_id) = "None"
                             THEN PendingDiscarded(tasks, task_id,
                                    PendingTask(tasks[task_id], title, description,
                                                status, due_date, done))
                             ELSE tasks
               /\ last' = [call EXCEPT !.op = "edit_task", !.outcome = "raised",
                                       !.error = error, !.now = clock,
                                       !.kind = ExceptionClass(error),
                                       !.http = ResponseStatus("edit_task",
                                                  ExceptionClass(error)),
                                       !.since_close = last.since_close]
  /\ UNCHANGED <<projects, nextProjectId, nextTaskId, clock, sess, sched>>

delete_task(project_id, task_id) ==
  /\ LET error == TaskLookupError(projects, tasks, project_id, task_id)
     IN IF error = "None"
          THEN /\ tasks' = DeleteRows(tasks, {task_id})
               /\ last' = [Returned("delete_task", Null)
                             EXCEPT !.id = task_id, !.project_id = project_id]
          ELSE /\ last' = [Raised("delete_task", error)
                             EXCEPT !.id = task_id, !.project_id = project_id]
               /\ UNCHANGED tasks
  /\ UNCHANGED <<projects, nextProjectId, nextTaskId, clock, sess, sched>>

\* Mutant: the query has no ORDER BY
AnyOrder(tbl, ids) ==
  {order \in [1..Cardinality(ids) -> ids] :
     \A i, j \in 1..Cardinality(ids) : i # j => order[i] # order[j]}

\* The orders a query sorted by created_at can return the rows ids in: rows
\* with equal created_at come in any order
OrderedByCreatedAt(tbl, ids) ==
  {order \in [1..Cardinality(ids) -> ids] :
     /\ \A i, j \in 1..Cardinality(ids) : i # j => order[i] # order[j]
     /\ \A i, j \in 1..Cardinality(ids) :
          i < j => tbl[order[i]].created_at <= tbl[order[j]].created_at}

\* Mutant: the owner of the task is not compared
GetTaskAnyOwner(tdb, project_id, task_id) ==
  IF task_id \notin DOMAIN tdb THEN Null ELSE Some(tdb[task_id])

\* What get_task returns: the row, or Null for Python's None
GetTaskResult(tdb, project_id, task_id) ==
  IF task_id \notin DOMAIN tdb \/ tdb[task_id].project_id # project_id
    THEN Null
    ELSE Some(tdb[task_id])

get_task(project_id, task_id) ==
  /\ last' = [Returned("get_task", last.since_close)
                EXCEPT !.project_id = project_id, !.id = task_id,
                       !.row = GetTaskResult(tasks, project_id, task_id)]
  /\ UNCHANGED <<projects, tasks, nextProjectId, nextTaskId, clock, sess, sched>>

\* Mutant: every project is given the number of all tasks
TaskCountOfStore(tdb, project_id) == Cardinality(DOMAIN tdb)

\* len(p.tasks) of a project loaded with its tasks
TaskCount(tdb, project_id) == Cardinality(TasksOf(tdb, project_id))

list_projects ==
  /\ \E order \in OrderedByCreatedAt(projects, DOMAIN projects) :
       last' = [Returned("list_projects", last.since_close)
                  EXCEPT !.listed = order, !.ret = Len(order),
                         !.counts = [k \in 1..Len(order) |->
                                       TaskCount(tasks, order[k])]]
  /\ UNCHANGED <<projects, tasks, nextProjectId, nextTaskId, clock, sess, sched>>

\* The check of list_tasks; "None" when it passes
ListTasksError(pdb, project_id) ==
  IF project_id \notin DOMAIN pdb THEN "Project with ID not found" ELSE "None"

list_tasks(project_id) ==
  /\ IF ListTasksError(projects, project_id) = "None"
       THEN \E order \in OrderedByCreatedAt(tasks, TasksOf(tasks, project_id)) :
              last' = [Returned("list_tasks", last.since_close)
                         EXCEPT !.project_id = project_id, !.listed = order,
                                !.ret = Len(order)]
       ELSE last' = [Raised("list_tasks", ListTasksError(projects, project_id))
                       EXCEPT !.project_id = project_id]
  /\ UNCHANGED <<projects, tasks, nextProjectId, nextTaskId, clock, sess, sched>>

(***************************************************************************)
(* Auto-close: TaskManager.auto_close_overdue and the scheduled job        *)
(* autoclose_overdue_tasks                                                 *)
(***************************************************************************)
\* Mutant: the deadline compared with <= instead of <
OverdueTasksInclusive(tdb, now) ==
  {i \in DOMAIN tdb : (\E d \in tdb[i].deadline : d <= now) /\ tdb[i].status # DONE}

\* Mutant: the status filter left out of the query
OverdueTasksAnyStatus(tdb, now) ==
  {i \in DOMAIN tdb : \E d \in tdb[i].deadline : d < now}

\* select(Task).where(Task.deadline < now, Task.status != TaskStatus.DONE)
\* Mutant: a task without a deadline counts as overdue
OverdueTasksNoDeadline(tdb, now) ==
  {i \in DOMAIN tdb :
     (tdb[i].deadline = Null \/ \E d \in tdb[i].deadline : d < now)
       /\ tdb[i].status # DONE}

OverdueTasks(tdb, now) ==
  {i \in DOMAIN tdb : (\E d \in tdb[i].deadline : d < now) /\ tdb[i].status # DONE}

\* Mutant: closing a task clears its deadline
CloseTasksClearingDeadline(tdb, ids, now) ==
  [i \in DOMAIN tdb |->
     IF i \in ids
       THEN [tdb[i] EXCEPT !.status = DONE, !.updated_at = now, !.deadline = Null]
     ELSE tdb[i]]

\* for task in overdue_tasks: task.status = DONE; task.updated_at = now
CloseTasks(tdb, ids, now) ==
  [i \in DOMAIN tdb |->
     IF i \in ids THEN [tdb[i] EXCEPT !.status = DONE, !.updated_at = now]
     ELSE tdb[i]]

\* Mutant: the pending updates stay after a failed commit
NotRolledBack(tdb, ids, now) == CloseTasks(tdb, ids, now)

\* db.rollback() after a failed query or commit: nothing of the batch stays
RolledBack(tdb, ids, now) == tdb

\* The store faults a run can meet: none, the query raises, the commit raises
Faults == {"none", "query", "commit"}

auto_close_overdue(fault) ==
  LET overdue_tasks == OverdueTasks(tasks, clock)
      call == [Returned("auto_close_overdue", Some(clock))
                 EXCEPT !.prev_close = last.since_close, !.fault = fault,
                        !.pre_tasks = tasks]
  IN /\ fault = "commit" => overdue_tasks # {}
     /\ IF fault = "none"
          THEN /\ tasks' = CloseTasks(tasks, overdue_tasks, clock)
               /\ last' = [call EXCEPT !.ret = Cardinality(overdue_tasks)]
          ELSE /\ tasks' = RolledBack(tasks, overdue_tasks, clock)
               /\ last' = [Raised("auto_close_overdue", "store failure")
                             EXCEPT !.prev_close = last.since_close,
                                    !.fault = fault, !.pre_tasks = tasks]
     /\ UNCHANGED <<projects, nextProjectId, nextTaskId, clock, sess, sched>>

autoclose_overdue_tasks(fault) ==
  LET overdue_tasks == OverdueTasks(tasks, clock)
      call == [Returned("autoclose_overdue_tasks", Some(clock))
                 EXCEPT !.prev_close = last.since_close, !.fault = fault,
                        !.pre_tasks = tasks]
  IN /\ fault = "commit" => overdue_tasks # {}
     /\ IF fault = "none"
          THEN /\ tasks' = CloseTasks(tasks, overdue_tasks, clock)
               /\ last' = [call EXCEPT !.ret = Cardinality(overdue_tasks)]
          ELSE /\ tasks' = RolledBack(tasks, overdue_tasks, clock)
               /\ last' = [call EXCEPT !.ret = 0,
                                       !.since_close = last.since_close]
     /\ UNCHANGED <<projects, nextProjectId, nextTaskId, clock, sess, sched>>

(***************************************************************************)
(* Calls in separate sessions: each call reads the committed store, then   *)
(* flushes its writes at db.commit(); calls of other sessions may commit   *)
(* in between.  A worker serves one request at a time; the scheduler       *)
(* thread runs its job inline.                                             *)
(***************************************************************************)
Workers == {"w1", "w2"}

Procs == Workers \cup {"scheduler"}

Idle ==
  [pc |-> "idle", op |-> "none", name |-> None, description |-> None,
   project_id |-> 0, selected |-> {}, now |-> 0]

\* Mutant: the insert re-checks the limit under a lock and is dropped at it
InsertProjectGuarded(db, id, name, description, now) ==
  IF Cardinality(DOMAIN db) >= MAX_NUMBER_OF_PROJECTS THEN db
  ELSE db @@ (id :> Project(id, name, description, now))

\* db.add(project); db.commit()
InsertProject(db, id, name, description, now) ==
  db @@ (id :> Project(id, name, description, now))

\* create_project up to its last check
create_project_check(p, name, description) ==
  /\ sess[p].pc = "idle"
  /\ nextProjectId <= MaxProjectId
  /\ LET error == CreateProjectError(projects, name, description)
     IN IF error = "None"
          THEN /\ sess' = [sess EXCEPT ![p] =
                     [Idle EXCEPT !.pc = "checked", !.op = "create_project",
                                  !.name = name, !.description = description]]
               /\ last' = [Call("create_project", "checked", "None", last.since_close)
                             EXCEPT !.name = name, !.description = description,
                                    !.pre_projects = projects]
          ELSE /\ last' = [Raised("create_project", error)
                             EXCEPT !.name = name, !.description = description,
                                    !.pre_projects = projects]
               /\ UNCHANGED sess
  /\ UNCHANGED <<projects, tasks, nextProjectId, nextTaskId, clock, sched>>

\* create_project from db.add to its return
create_project_commit(p) ==
  /\ sess[p].pc = "checked"
  /\ sess[p].op = "create_project"
  /\ projects' = InsertProject(projects, nextProjectId, sess[p].name,
                               sess[p].description, clock)
  /\ nextProjectId' = nextProjectId + 1
  /\ sess' = [sess EXCEPT ![p] = Idle]
  /\ last' = [Returned("create_project", last.since_close)
                EXCEPT !.id = nextProjectId, !.name = sess[p].name,
                       !.description = sess[p].description,
                       !.pre_projects = projects]
  /\ UNCHANGED <<tasks, nextTaskId, clock, sched>>

\* Mutant: the commit of a run writes nothing
FlushNothing(tdb, ids, now) == tdb

\* The flush of a run's pending updates: one UPDATE per selected row, by
\* primary key, whatever the row's committed status is by then
FlushClosed(tdb, ids, now) == CloseTasks(tdb, ids \cap DOMAIN tdb, now)

\* auto_close_overdue up to the query's result
auto_close_select(p) ==
  /\ p \in Workers
  /\ sess[p].pc = "idle"
  /\ LET overdue_tasks == OverdueTasks(tasks, clock)
     IN IF overdue_tasks = {}
          THEN /\ last' = [Returned("auto_close_overdue", Some(clock))
                             EXCEPT !.prev_close = last.since_close,
                                    !.pre_tasks = tasks]
               /\ UNCHANGED sess
          ELSE /\ sess' = [sess EXCEPT ![p] =
                     [Idle EXCEPT !.pc = "selected", !.op = "auto_close_overdue",
                                  !.selected = overdue_tasks, !.now = clock]]
               /\ last' = [Call("auto_close_overdue", "selected", "None",
                                last.since_close) EXCEPT !.pre_tasks = tasks]
  /\ UNCHANGED <<projects, tasks, nextProjectId, nextTaskId, clock, sched>>

\* auto_close_overdue from the loop over the selected tasks to its return
auto_close_commit(p) ==
  /\ p \in Workers
  /\ sess[p].pc = "selected"
  /\ tasks' = FlushClosed(tasks, sess[p].selected, sess[p].now)
  /\ sess' = [sess EXCEPT ![p] = Idle]
  /\ last' = [Returned("auto_close_overdue", Some(sess[p].now))
                EXCEPT !.ret = Cardinality(sess[p].selected),
                       !.prev_close = last.since_close, !.pre_tasks = tasks]
  /\ UNCHANGED <<projects, nextProjectId, nextTaskId, clock, sched>>

(***************************************************************************)
(* The scheduler loop of commands/autoclose_overdue.py                     *)
(***************************************************************************)
\* schedule.every(15).minutes: the job is next due one interval from now
NextRun(now) == now + 1

\* run_scheduler: schedule_autoclose_job(), then the loop
run_scheduler ==
  /\ sched.state = "off"
  /\ sched' = [state |-> "sleeping", next_run |-> NextRun(clock),
               job |-> "autoclose_overdue_tasks"]
  /\ last' = [Call("run_scheduler", "started", "None", last.since_close)
                EXCEPT !.now = clock]
  /\ UNCHANGED <<projects, tasks, nextProjectId, nextTaskId, clock, sess>>

\* schedule.run_pending() finds the job due and calls it in the loop's own
\* thread: autoclose_overdue_tasks up to the query's result
run_pending ==
  /\ sched.state = "sleeping"
  /\ sched.job = "autoclose_overdue_tasks"
  /\ clock >= sched.next_run
  /\ LET overdue_tasks == OverdueTasks(tasks, clock)
     IN IF overdue_tasks = {}
          THEN /\ sched' = [sched EXCEPT !.next_run = NextRun(clock)]
               /\ last' = [Returned("autoclose_overdue_tasks", Some(clock))
                             EXCEPT !.prev_close = last.since_close,
                                    !.pre_tasks = tasks]
               /\ UNCHANGED sess
          ELSE /\ sched' = [sched EXCEPT !.state = "running"]
               /\ sess' = [sess EXCEPT !["scheduler"] =
                     [Idle EXCEPT !.pc = "selected",
                                  !.op = "autoclose_overdue_tasks",
                                  !.selected = overdue_tasks, !.now = clock]]
               /\ last' = [Call("autoclose_overdue_tasks", "selected", "None",
                                last.since_close) EXCEPT !.pre_tasks = tasks]
  /\ UNCHANGED <<projects, tasks, nextProjectId, nextTaskId, clock>>

\* The scheduled job from its loop over the selected tasks to its return;
\* the loop then sleeps until the job is due again
job_commit(fault) ==
  /\ sched.state = "running"
  /\ fault \in {"none", "commit"}
  /\ tasks' = IF fault = "none"
                THEN FlushClosed(tasks, sess["scheduler"].selected,
                                 sess["scheduler"].now)
                ELSE RolledBack(tasks, sess["scheduler"].selected,
                                sess["scheduler"].now)
  /\ sess' = [sess EXCEPT !["scheduler"] = Idle]
  /\ sched' = [sched EXCEPT !.state = "sleeping", !.next_run = NextRun(clock)]
  /\ last' = [Returned("autoclose_overdue_tasks",
                       IF fault = "none" THEN Some(sess["scheduler"].now)
                       ELSE last.since_close)
                EXCEPT !.ret = IF fault = "none"
                                 THEN Cardinality(sess["scheduler"].selected)
                                 ELSE 0,
                       !.fault = fault, !.prev_close = last.since_close,
                       !.pre_tasks = tasks]
  /\ UNCHANGED <<projects, nextProjectId, nextTaskId, clock>>

\* The jobs commands/scheduler.py can be given: the job function of
\* commands/autoclose_overdue.py, which returns 0 on a failure, and
\* TaskManager.auto_close_overdue, which raises
JobFuncs == {"autoclose_overdue_tasks", "auto_close_overdue"}

\* commands/scheduler.py: schedule_autoclose_job(job_func), then run_scheduler()
scheduler_run_scheduler(job_func) ==
  /\ sched.state = "off"
  /\ sched' = [state |-> "sleeping", next_run |-> NextRun(clock), job |-> job_func]
  /\ last' = [Call("run_scheduler", "started", "None", last.since_close)
                EXCEPT !.now = clock]
  /\ UNCHANGED <<projects, tasks, nextProjectId, nextTaskId, clock, sess>>

\* schedule.run_pending() of that loop calling TaskManager.auto_close_overdue:
\* the job runs inline; an exception it raises leaves run_pending and the
\* while loop and is logged by the except clause around the loop
scheduler_run_pending(fault) ==
  LET overdue_tasks == OverdueTasks(tasks, clock)
  IN /\ sched.state = "sleeping"
     /\ sched.job = "auto_close_overdue"
     /\ clock >= sched.next_run
     /\ fault = "commit" => overdue_tasks # {}
     /\ IF fault = "none"
          THEN /\ tasks' = CloseTasks(tasks, overdue_tasks, clock)
               /\ sched' = [sched EXCEPT !.next_run = NextRun(clock)]
               /\ last' = [Returned("auto_close_overdue", Some(clock))
                             EXCEPT !.ret = Cardinality(overdue_tasks),
                                    !.prev_close = last.since_close,
                                    !.pre_tasks = tasks]
          ELSE /\ tasks' = RolledBack(tasks, overdue_tasks, clock)
               /\ sched' = [sched EXCEPT !.state = "stopped"]
               /\ last' = [Raised("auto_close_overdue", "store failure")
                             EXCEPT !.prev_close = last.since_close,
                                    !.fault = fault, !.pre_tasks = tasks]
     /\ UNCHANGED <<projects, nextProjectId, nextTaskId, clock, sess>>

\* KeyboardInterrupt in the loop's thread.  It is not an Exception: inside
\* the job only the finally clause runs, which closes the session with its
\* updates pending, and the except clause around the loop ends the loop
interrupt ==
  /\ sched.state \in {"sleeping", "running"}
  /\ sched' = [sched EXCEPT !.state = "stopped"]
  /\ sess' = IF sched.state = "running"
               THEN [sess EXCEPT !["scheduler"].pc = "closed"]
               ELSE sess
  /\ last' = Call("run_scheduler", "interrupted", "None", last.since_close)
  /\ UNCHANGED <<projects, tasks, nextProjectId, nextTaskId, clock>>

\* Time passes for the loop: at the last clock value of the model the only
\* effect of another interval is that the scheduled job is due
Elapse ==
  IF clock < MaxClock
    THEN /\ clock' = clock + 1
         /\ last' = [NoCall EXCEPT !.op = "tick", !.now = clock + 1,
                                   !.since_close = last.since_close]
         /\ UNCHANGED <<projects, tasks, nextProjectId, nextTaskId, sess, sched>>
    ELSE /\ sched.state = "sleeping"
         /\ sched.next_run > clock
         /\ sched' = [sched EXCEPT !.next_run = clock]
         /\ last' = [NoCall EXCEPT !.op = "tick", !.now = clock,
                                   !.since_close = last.since_close]
         /\ UNCHANGED <<projects, tasks, nextProjectId, nextTaskId, clock, sess>>

\* Time passes
Tick ==
  /\ clock < MaxClock
  /\ clock' = clock + 1
  /\ last' = [NoCall EXCEPT !.op = "tick", !.now = clock + 1,
                            !.since_close = last.since_close]
  /\ UNCHANGED <<projects, tasks, nextProjectId, nextTaskId, sess, sched>>

(***************************************************************************)
(* Inputs of the specifications                                            *)
(***************************************************************************)
NAME_P == <<"P">>
TITLE_T == <<"T">>
DATE_2023_12_31 == <<"2","0","2","3","-","1","2","-","3","1">>
DATE_2024_01_01 == <<"2","0","2","4","-","1","-","1">>
DATE_BAD == <<"2","0","2","4","-","0","2","-","3","0">>

EmptyStore ==
  /\ projects = <<>>
  /\ tasks = <<>>
  /\ nextProjectId = 1
  /\ nextTaskId = 1
  /\ last = NoCall
  /\ sess = [p \in Procs |-> Idle]
  /\ sched = [state |-> "off", next_run |-> 0, job |-> "none"]

(***************************************************************************)
(* Spec: the task lifecycle and auto-close, service calls one at a time,   *)
(* all within one tick of the clock, whatever the time is                  *)
(***************************************************************************)
Init == EmptyStore /\ clock \in 0..MaxClock

TaskDueDates == {None, DATE_2023_12_31, DATE_2024_01_01}

\* <<status, due_date, done>> of the edit_task calls
TaskEdits ==
  { <<TOKEN_DOING, None, Null>>,
    <<TOKEN_CANCELLED, None, Some(FALSE)>>,
    <<None, DATE_2024_01_01, Null>> }

Next ==
  \/ create_project(NAME_P, None)
  \/ \E due_date \in TaskDueDates, done \in BOOLEAN :
       create_task(1, TITLE_T, due_date, None, Lower(TOKEN_TODO), done)
  \/ \E task_id \in 1..MaxTaskId, e \in TaskEdits :
       edit_task(1, task_id, None, None, e[1], e[2], e[3])
  \/ \E task_id \in 1..MaxTaskId : delete_task(1, task_id)
  \/ \E fault \in Faults : auto_close_overdue(fault)
  \/ \E fault \in Faults : autoclose_overdue_tasks(fault)

Spec == Init /\ [][Next]_vars

(***************************************************************************)
(* SpecClock: the same calls while time passes                             *)
(***************************************************************************)
InitClock == EmptyStore /\ clock = 0

NextClock ==
  \/ create_project(NAME_P, None)
  \/ \E due_date \in {DATE_2024_01_01, DATE_BAD} :
       create_task(1, TITLE_T, due_date, None, None, FALSE)
  \/ \E task_id \in 1..MaxTaskId :
       edit_task(1, task_id, None, None, None, DATE_2023_12_31, Null)
  \/ \E task_id \in 1..MaxTaskId : delete_task(1, task_id)
  \/ \E fault \in Faults : auto_close_overdue(fault)
  \/ \E fault \in Faults : autoclose_overdue_tasks(fault)
  \/ Tick

SpecClock == InitClock /\ [][NextClock]_vars

(***************************************************************************)
(* SpecProjects: ProjectManager calls one at a time, over names that       *)
(* differ in case or hold the characters ILIKE reads as wildcards          *)
(***************************************************************************)
NAME_a == <<"a">>
NAME_A == <<"A">>
NAME_b == <<"b">>
NAME_UNDERSCORE == <<"_">>
NAME_BACKSLASH_a == <<"\\", "a">>
NAME_EMPTY == <<>>
DESCRIPTION_d == <<"d">>

ProjectNames ==
  {NAME_a, NAME_A, NAME_b, NAME_UNDERSCORE, NAME_BACKSLASH_a, NAME_EMPTY}

\* <<name, description>> of the edit_project calls
ProjectEdits ==
  {<<name, None>> : name \in ProjectNames} \cup {<<None, DESCRIPTION_d>>}

NextProjects ==
  \/ \E name \in ProjectNames : create_project(name, None)
  \/ \E project_id \in 1..MaxProjectId, e \in ProjectEdits :
       edit_project(project_id, e[1], e[2])
  \/ \E project_id \in 1..MaxProjectId : delete_project(project_id)

SpecProjects == InitClock /\ [][NextProjects]_vars

(***************************************************************************)
(* SpecRace: create_project calls of two workers in separate sessions      *)
(***************************************************************************)
NextRace ==
  \/ \E p \in Workers, name \in {NAME_a, NAME_A, NAME_b, NAME_P} :
       create_project_check(p, name, None)
  \/ \E p \in Workers : create_project_commit(p)
  \/ \E project_id \in 1..MaxProjectId : delete_project(project_id)

SpecRace == InitClock /\ [][NextRace]_vars

(***************************************************************************)
(* SpecScheduler: the scheduler loop beside on-demand auto-close requests  *)
(* (POST /tasks/autoclose) of the workers                                  *)
(***************************************************************************)
NextScheduler ==
  \/ create_project(NAME_P, None)
  \/ create_task(1, TITLE_T, DATE_2024_01_01, None, None, FALSE)
  \/ run_scheduler
  \/ run_pending
  \/ \E fault \in {"none", "commit"} : job_commit(fault)
  \/ \E p \in Workers : auto_close_select(p)
  \/ \E p \in Workers : auto_close_commit(p)
  \/ Tick

SpecScheduler == InitClock /\ [][NextScheduler]_vars

(***************************************************************************)
(* Properties of auto-close                                                *)
(***************************************************************************)
AutoCloseOps == {"auto_close_overdue", "autoclose_overdue_tasks"}

\* The last call was an auto-close run that met no store fault
AutoCloseRan == last.op \in AutoCloseOps /\ last.fault = "none"

WasOverdue(row, T) == (\E d \in row.deadline : d < T) /\ row.status # "done"

\* C1: a run with now = T sets status done on exactly the tasks that had
\* deadline < T and status != done before it, leaves the status of every
\* other task as it was, and returns the number of tasks it set to done.
C1_ClosesExactlyOverdue ==
  AutoCloseRan =>
    /\ last.outcome = "returned"
    /\ DOMAIN tasks = DOMAIN last.pre_tasks
    /\ \A i \in DOMAIN last.pre_tasks :
         tasks[i].status = IF WasOverdue(last.pre_tasks[i], last.now)
                             THEN "done" ELSE last.pre_tasks[i].status
    /\ last.ret = Cardinality({i \in DOMAIN last.pre_tasks :
                                 WasOverdue(last.pre_tasks[i], last.now)})

\* A run closed one task and left alone a task whose deadline is exactly T
C1_Witness ==
  /\ AutoCloseRan
  /\ last.ret = 1
  /\ \E i, j \in DOMAIN tasks :
       /\ last.pre_tasks[i].status # "done" /\ tasks[i].status = "done"
       /\ tasks[j].deadline = {last.now} /\ tasks[j].status # "done"

\* C2 as stated: a run that follows a committed run, with no task created,
\* edited or deleted in between, returns 0 and changes no task.
C2_SecondRunClosesNothing ==
  (AutoCloseRan /\ last.prev_close # {}) =>
    (last.ret = 0 /\ tasks = last.pre_tasks)

\* No deadline lies at or after the earlier run's time and before this run's
NoDeadlineBetween ==
  \A i \in DOMAIN last.pre_tasks :
    \A d \in last.pre_tasks[i].deadline :
      \A t \in last.prev_close : ~(t <= d /\ d < last.now)

\* C2 amended: a run that follows a committed run, with no task created,
\* edited or deleted in between and no deadline falling between the two
\* reference times, returns 0 and changes no task.
C2_IdempotentAtSameTime ==
  (AutoCloseRan /\ last.prev_close # {} /\ NoDeadlineBetween) =>
    (last.ret = 0 /\ tasks = last.pre_tasks)

\* The second of two runs found a task the first had closed, and closed nothing
C2_Witness ==
  /\ AutoCloseRan
  /\ last.prev_close # {}
  /\ last.ret = 0
  /\ \E i \in DOMAIN tasks :
       tasks[i].status = "done" /\ tasks[i].updated_at \in last.prev_close

\* C3: a task whose status is cancelled or done is never changed by an
\* auto-close run, whatever its deadline.
C3_CancelledNeverClosed ==
  AutoCloseRan =>
    \A i \in DOMAIN last.pre_tasks :
      last.pre_tasks[i].status \in {"cancelled", "done"} =>
        (i \in DOMAIN tasks /\ tasks[i] = last.pre_tasks[i])

\* C4: when the commit of the batch fails, no task the run selected has its
\* status or its updated_at changed in the store.
C4_FailedCommitChangesNothing ==
  (last.op \in AutoCloseOps /\ last.fault = "commit") =>
    /\ DOMAIN tasks = DOMAIN last.pre_tasks
    /\ \A i \in DOMAIN last.pre_tasks :
         /\ tasks[i].status = last.pre_tasks[i].status
         /\ tasks[i].updated_at = last.pre_tasks[i].updated_at

\* The commit failed on a batch holding a task last written before the run
C4_Witness ==
  /\ last.op \in AutoCloseOps
  /\ last.fault = "commit"
  /\ \E i \in DOMAIN tasks :
       WasOverdue(tasks[i], last.now) /\ tasks[i].updated_at < last.now

\* C5: a run that met a store fault is reported to its caller as a failure,
\* never as a return value a successful run could have produced.
C5_StoreFailureReported ==
  (last.op \in AutoCloseOps /\ last.fault # "none") => last.outcome = "raised"

(***************************************************************************)
(* Properties of ProjectManager                                            *)
(***************************************************************************)
NumberOfProjects(db) == Cardinality(DOMAIN db)

\* C7: the number of stored projects never exceeds the configured maximum,
\* and a create_project call made when the count equals the maximum fails
\* and leaves the stored projects as they were.
C7_ProjectLimit ==
  /\ NumberOfProjects(projects) <= MAX_NUMBER_OF_PROJECTS
  /\ (last.op = "create_project"
        /\ NumberOfProjects(last.pre_projects) = MAX_NUMBER_OF_PROJECTS) =>
       (last.outcome = "raised" /\ projects = last.pre_projects)

\* A create_project call with a valid, unused name was refused at the maximum
C7_Witness ==
  /\ last.op = "create_project"
  /\ NumberOfProjects(last.pre_projects) = MAX_NUMBER_OF_PROJECTS
  /\ last.outcome = "raised"
  /\ last.name # <<>>
  /\ \A i \in DOMAIN projects : Lower(projects[i].name) # Lower(last.name)

EqualIgnoringCase(a, b) ==
  /\ Len(a) = Len(b)
  /\ \A k \in 1..Len(a) :
       \/ a[k] = b[k]
       \/ \E n \in 1..26 : {a[k], b[k]} = {UpperAlphabet[n], LowerAlphabet[n]}

\* C9: no two stored projects have names that are equal ignoring case.
C9_NamesUniqueIgnoringCase ==
  \A i, j \in DOMAIN projects :
    i # j => ~EqualIgnoringCase(projects[i].name, projects[j].name)

\* C10: create_project succeeds and persists exactly one new project whenever
\* the count is below the maximum, the name and the description are valid and
\* no stored project has a name equal to the new name ignoring case.
C10_CreateSucceedsUnlessDuplicate ==
  (/\ last.op = "create_project"
   /\ NumberOfProjects(last.pre_projects) < MAX_NUMBER_OF_PROJECTS
   /\ last.name # <<>> /\ ~IsBlank(last.name)
   /\ WordCount(last.name) <= NameMaxWords
   /\ last.description = None
   /\ \A i \in DOMAIN last.pre_projects :
        ~EqualIgnoringCase(last.pre_projects[i].name, last.name))
  =>
    /\ last.outcome = "returned"
    /\ \E id \in DOMAIN projects \ DOMAIN last.pre_projects :
         /\ DOMAIN projects = DOMAIN last.pre_projects \cup {id}
         /\ projects[id].name = last.name
         /\ \A i \in DOMAIN last.pre_projects : projects[i] = last.pre_projects[i]

\* A committed create_project of a session that had passed its checks
CreateCommitted == last.op = "create_project" /\ last.outcome = "returned"

\* C8: no lock guards the check-then-insert of create_project: a call that
\* passed the count check inserts its project at commit whatever the count
\* is by then, so two calls that both passed the check with the count one
\* below the maximum leave more projects than the maximum.
C8_InsertNotGuarded ==
  CreateCommitted =>
    /\ NumberOfProjects(projects) = NumberOfProjects(last.pre_projects) + 1
    /\ \A i \in DOMAIN last.pre_projects :
         i \in DOMAIN projects /\ projects[i] = last.pre_projects[i]

\* Both calls committed: the store holds more projects than the maximum
C8_Witness ==
  /\ CreateCommitted
  /\ NumberOfProjects(projects) > MAX_NUMBER_OF_PROJECTS

\* The auto-close runs in progress: selected, not yet committed
RunsInProgress == {p \in Procs : sess[p].pc = "selected"}

\* C6: in no reachable state are two auto-close invocations (scheduled ticks
\* or on-demand triggers) in progress against the same store.
C6_NoOverlap == Cardinality(RunsInProgress) <= 1

(***************************************************************************)
(* SpecCascade: tasks of two projects, with projects deleted under them    *)
(***************************************************************************)
TITLE_U == <<"U">>

NextCascade ==
  \/ \E name \in {NAME_a, NAME_b} : create_project(name, None)
  \/ \E project_id \in 1..MaxProjectId :
       create_task(project_id, TITLE_T, None, None, None, FALSE)
  \/ \E project_id \in 1..MaxProjectId, task_id \in 1..MaxTaskId :
       edit_task(project_id, task_id, TITLE_U, None, None, None, Null)
  \/ \E project_id \in 1..MaxProjectId, task_id \in 1..MaxTaskId :
       delete_task(project_id, task_id)
  \/ \E project_id \in 1..MaxProjectId : delete_project(project_id)
  \/ \E project_id \in 1..MaxProjectId : list_tasks(project_id)

SpecCascade == InitClock /\ [][NextCascade]_vars

(***************************************************************************)
(* Properties of the link between tasks and projects                       *)
(***************************************************************************)
\* C11: delete_project of a project that owns N tasks removes the project and
\* all N of its tasks in one step and no task of any other project; from then
\* on list_tasks for that project id fails with not-found, it does not return
\* an empty list.
C11_DeleteProjectCascades ==
  /\ (last.op = "delete_project" /\ last.outcome = "returned") =>
       /\ DOMAIN projects = DOMAIN last.pre_projects \ {last.id}
       /\ DOMAIN tasks = {i \in DOMAIN last.pre_tasks :
                            last.pre_tasks[i].project_id # last.id}
       /\ \A i \in DOMAIN tasks : tasks[i] = last.pre_tasks[i]
       /\ ListTasksError(projects, last.id) = "Project with ID not found"
  /\ (last.op = "list_tasks" /\ last.project_id \notin DOMAIN projects) =>
       (last.outcome = "raised" /\ last.error = "Project with ID not found")

\* A project that owned a task was deleted beside a project that owns one
C11_Witness ==
  /\ last.op = "delete_project"
  /\ last.outcome = "returned"
  /\ \E i \in DOMAIN last.pre_tasks : last.pre_tasks[i].project_id = last.id
  /\ tasks # <<>>

\* C12: every stored task has a project_id that refers to a stored project,
\* and a create_task call for a project that does not exist fails and stores
\* nothing.
C12_TaskBelongsToStoredProject ==
  /\ \A i \in DOMAIN tasks : tasks[i].project_id \in DOMAIN projects
  /\ (last.op = "create_task" /\ last.project_id \notin DOMAIN projects) =>
       (last.outcome = "raised" /\ last.id \notin DOMAIN tasks)

\* create_task was refused for a project that had been deleted, while a task
\* of another project is stored
C12_Witness ==
  /\ last.op = "create_task"
  /\ last.outcome = "raised"
  /\ last.project_id \notin DOMAIN projects
  /\ last.project_id < nextProjectId
  /\ tasks # <<>>

\* The call names a stored project that is not the owner of the stored task
ForeignProject(pdb, tdb, project_id, task_id) ==
  /\ project_id \in DOMAIN pdb
  /\ task_id \in DOMAIN tdb
  /\ tdb[task_id].project_id # project_id

\* C13: edit_task and delete_task called with a project that exists but is
\* not the task's owner fail and leave every task, that one included, stored
\* as it was.
C13_ForeignProjectRejected ==
  [][(last'.op \in {"edit_task", "delete_task"}
        /\ ForeignProject(projects, tasks, last'.project_id, last'.id))
      => (last'.outcome = "raised" /\ tasks' = tasks /\ projects' = projects)]_vars

\* An edit_task call naming the other stored project was refused
C13_Witness ==
  /\ last.op = "edit_task"
  /\ last.outcome = "raised"
  /\ last.error = "Task does not belong to project"
  /\ ForeignProject(projects, tasks, last.project_id, last.id)

(***************************************************************************)
(* SpecStatus: the status of tasks, set at creation and by edits, over     *)
(* every status token, one token in mixed case and one unknown token       *)
(***************************************************************************)
TOKEN_TODO_PLAIN == <<"t","o","d","o">>
TOKEN_DOING_MIXED == <<"D","o","i","n","g">>
TOKEN_UNKNOWN == <<"x">>

StatusTokens ==
  {TOKEN_TODO, TOKEN_TODO_PLAIN, TOKEN_DOING, TOKEN_DOING_MIXED,
   TOKEN_IN_PROGRESS, TOKEN_DONE, TOKEN_CANCELLED, TOKEN_UNKNOWN}

\* <<status, done>> of the edit_task calls
StatusEdits == (StatusTokens \cup {None}) \X {Null, Some(TRUE), Some(FALSE)}

NextStatus ==
  \/ create_project(NAME_P, None)
  \/ \E status \in StatusTokens \cup {None}, done \in BOOLEAN :
       create_task(1, TITLE_T, None, None, status, done)
  \/ \E task_id \in 1..MaxTaskId, e \in StatusEdits :
       edit_task(1, task_id, None, None, e[1], None, e[2])
  \/ \E task_id \in 1..MaxTaskId : delete_task(1, task_id)

SpecStatus == InitClock /\ [][NextStatus]_vars

(***************************************************************************)
(* Properties of the task status                                           *)
(***************************************************************************)
\* C14: manual status transitions are unrestricted: whatever status s a
\* stored task has and whatever status s2 is wanted, some edit_task call on
\* that task succeeds and leaves it with status s2 (a done task can be
\* re-opened).
C14_AnyTransitionPossible ==
  \A i \in DOMAIN tasks, s \in TaskStatus, s2 \in TaskStatus :
    \E e \in StatusEdits :
      /\ EditTaskError(projects, tasks, tasks[i].project_id, i, None, None,
                       e[1], None, e[2]) = "None"
      /\ EditedTask([tasks[i] EXCEPT !.status = s], None, None,
                    e[1], None, e[2]).status = s2

\* An edit_task call re-opened a done task, and a cancelled task is stored
C14_Witness ==
  /\ last.op = "edit_task"
  /\ last.outcome = "returned"
  /\ last.pre_status = {"done"}
  /\ tasks[last.id].status = "to-do"
  /\ \E i \in DOMAIN tasks : tasks[i].status = "cancelled"

\* The status tokens of the specification, in lower case
KnownTokens ==
  {TOKEN_TODO, TOKEN_TODO_PLAIN, TOKEN_DOING, TOKEN_IN_PROGRESS, TOKEN_DONE,
   TOKEN_CANCELLED}

\* The canonical status the specification gives each token
CanonicalStatus(token) ==
  IF token \in {TOKEN_TODO, TOKEN_TODO_PLAIN} THEN "to-do"
  ELSE IF token \in {TOKEN_DOING, TOKEN_IN_PROGRESS} THEN "in-progress"
  ELSE IF token = TOKEN_DONE THEN "done"
  ELSE "cancelled"

\* The last call was a create_task or edit_task that passed its lookups and
\* supplied a status token and no done flag (False for create_task)
StatusTokenCall ==
  /\ last.op \in {"create_task", "edit_task"}
  /\ last.status # None
  /\ last.project_id \in DOMAIN projects
  /\ last.op = "edit_task" => (last.pre_status # Null /\ last.done = Null)
  /\ last.op = "create_task" => last.done = {FALSE}

\* C15: create_task and edit_task accept each of the tokens to-do, todo,
\* doing, in-progress, done and cancelled in any letter case and store the
\* canonical status of the token.
C15_KnownTokensAccepted ==
  (StatusTokenCall /\ Lower(last.status) \in KnownTokens) =>
    /\ last.outcome = "returned"
    /\ tasks[last.id].status = CanonicalStatus(Lower(last.status))

\* C16: a create_task or edit_task call that supplies a status token that is
\* not a known token fails, whatever done flag comes with it.
C16_UnknownTokenRejected ==
  (/\ last.op \in {"create_task", "edit_task"}
   /\ last.status # None
   /\ Lower(last.status) \notin KnownTokens)
  => last.outcome = "raised"

(***************************************************************************)
(* SpecFailures: calls of both services that fail at each of their checks, *)
(* among them edits whose earlier field is valid and later field is not    *)
(***************************************************************************)
\* A description of one word more than the limit
DESCRIPTION_LONG ==
  [i \in 1..(2 * DescriptionMaxWords + 1) |-> IF i % 2 = 1 THEN "w" ELSE " "]

\* <<name, description>> of the edit_project calls
FailingProjectEdits ==
  { <<NAME_b, DESCRIPTION_LONG>>, <<NAME_EMPTY, None>>, <<NAME_a, None>>,
    <<NAME_b, None>> }

\* <<title, due_date, status>> of the create_task calls
FailingTaskCreates ==
  { <<TITLE_T, None, None>>, <<NAME_EMPTY, None, None>>,
    <<TITLE_T, DATE_BAD, None>>, <<TITLE_T, None, TOKEN_UNKNOWN>> }

\* <<title, description, status, due_date>> of the edit_task calls
FailingTaskEdits ==
  { <<TITLE_U, None, TOKEN_UNKNOWN, None>>,
    <<TITLE_U, DESCRIPTION_d, None, DATE_BAD>>,
    <<None, None, TOKEN_DOING, DATE_BAD>>,
    <<NAME_EMPTY, None, None, None>>,
    <<None, None, TOKEN_DONE, None>> }

NextFailures ==
  \/ \E name \in {NAME_a, NAME_A, NAME_EMPTY} : create_project(name, None)
  \/ \E project_id \in 1..2, e \in FailingProjectEdits :
       edit_project(project_id, e[1], e[2])
  \/ \E project_id \in 1..2 : delete_project(project_id)
  \/ \E project_id \in 1..2, c \in FailingTaskCreates :
       create_task(project_id, c[1], c[2], None, c[3], FALSE)
  \/ \E project_id \in 1..2, task_id \in 1..MaxTaskId, e \in FailingTaskEdits :
       edit_task(project_id, task_id, e[1], e[2], e[3], e[4], Null)
  \/ \E project_id \in 1..2, task_id \in 1..MaxTaskId :
       delete_task(project_id, task_id)

SpecFailures == InitClock /\ [][NextFailures]_vars

(***************************************************************************)
(* SpecEdit: edits of one task, each supplying one field, while time       *)
(* passes and beside tasks that are not edited                             *)
(***************************************************************************)
\* <<title, description, status, due_date, done>> of the edit_task calls
FieldEdits ==
  { <<TITLE_U, None, None, None, Null>>,
    <<None, DESCRIPTION_d, None, None, Null>>,
    <<None, None, TOKEN_DOING, None, Null>>,
    <<None, None, None, DATE_2023_12_31, Null>>,
    <<None, None, None, None, Some(TRUE)>>,
    <<None, None, None, None, Null>> }

NextEdit ==
  \/ create_project(NAME_P, None)
  \/ create_task(1, TITLE_T, DATE_2024_01_01, None, None, FALSE)
  \/ \E e \in FieldEdits : edit_task(1, 1, e[1], e[2], e[3], e[4], e[5])
  \/ \E task_id \in 1..MaxTaskId : delete_task(1, task_id)
  \/ auto_close_overdue("none")
  \/ Tick

SpecEdit == InitClock /\ [][NextEdit]_vars

(***************************************************************************)
(* SpecCreate: create_task over valid and invalid arguments                *)
(***************************************************************************)
\* <<title, due_date, description, status, done>> of the create_task calls
TaskCreates ==
  { <<TITLE_T, None, None, None, FALSE>>,
    <<TITLE_T, DATE_2024_01_01, DESCRIPTION_d, TOKEN_DOING_MIXED, FALSE>>,
    <<TITLE_U, <<>>, None, TOKEN_DONE, FALSE>>,
    <<TITLE_U, DATE_2023_12_31, None, TOKEN_TODO, FALSE>>,
    <<TITLE_T, None, None, TOKEN_TODO, TRUE>>,
    <<NAME_EMPTY, None, None, None, FALSE>>,
    <<TITLE_T, DATE_BAD, None, None, FALSE>>,
    <<TITLE_T, None, None, TOKEN_CANCELLED, FALSE>> }

NextCreate ==
  \/ create_project(NAME_P, None)
  \/ \E project_id \in 1..2, c \in TaskCreates :
       create_task(project_id, c[1], c[2], c[3], c[4], c[5])
  \/ \E task_id \in 1..MaxTaskId : delete_task(1, task_id)

SpecCreate == InitClock /\ [][NextCreate]_vars

(***************************************************************************)
(* Properties of failing calls and of the frame of successful ones         *)
(***************************************************************************)
MutatingOps ==
  {"create_project", "edit_project", "delete_project",
   "create_task", "edit_task", "delete_task"}

\* C17: a create, edit or delete call of either service that fails leaves
\* the stored projects and tasks exactly as they were, also when an earlier
\* field of an edit was valid and a later one was not.
C17_FailedCallChangesNothing ==
  [][(last'.op \in MutatingOps /\ last'.outcome = "raised")
      => (projects' = projects /\ tasks' = tasks)]_vars

\* An edit_task call with a valid new title failed at a later field, and the
\* stored task does not have the new title
C17_Witness ==
  /\ last.op = "edit_task"
  /\ last.outcome = "raised"
  /\ last.name = TITLE_U
  /\ last.error \in {"Invalid status. Must be one of: to-do, doing, done",
                      "Invalid date format. Use YYYY-MM-DD"}
  /\ last.id \in DOMAIN tasks
  /\ tasks[last.id].name # TITLE_U

\* C18: a successful edit_project changes only the fields supplied, of that
\* project only, and renaming a project to its own current name in any
\* letter case is not rejected as a duplicate.
C18_EditProjectFrame ==
  (last.op = "edit_project" /\ last.id \in DOMAIN last.pre_projects) =>
    /\ (/\ last.name # None
        /\ EqualIgnoringCase(last.name, last.pre_projects[last.id].name)
        /\ last.description = None)
       => last.outcome = "returned"
    /\ last.outcome = "returned" =>
         /\ DOMAIN projects = DOMAIN last.pre_projects
         /\ \A i \in DOMAIN projects \ {last.id} : projects[i] = last.pre_projects[i]
         /\ last.name = None =>
              projects[last.id].name = last.pre_projects[last.id].name
         /\ last.description = None =>
              projects[last.id].description = last.pre_projects[last.id].description

\* C19: a successful edit_task changes, among title, description, status and
\* deadline, only the fields supplied (the done flag supplies the status),
\* of that one task; no step changes the id, project_id or created_at of a
\* task that stays stored.
C19_EditTaskFrame ==
  [][/\ (last'.op = "edit_task" /\ last'.outcome = "returned") =>
          /\ projects' = projects
          /\ DOMAIN tasks' = DOMAIN tasks
          /\ \A j \in DOMAIN tasks \ {last'.id} : tasks'[j] = tasks[j]
          /\ last'.name = None => tasks'[last'.id].name = tasks[last'.id].name
          /\ last'.description = None =>
               tasks'[last'.id].description = tasks[last'.id].description
          /\ (last'.status = None /\ last'.done = Null) =>
               tasks'[last'.id].status = tasks[last'.id].status
          /\ last'.due_date = None =>
               tasks'[last'.id].deadline = tasks[last'.id].deadline
     /\ \A j \in DOMAIN tasks \cap DOMAIN tasks' :
          /\ tasks'[j].id = tasks[j].id
          /\ tasks'[j].project_id = tasks[j].project_id
          /\ tasks'[j].created_at = tasks[j].created_at]_vars

\* An edit that supplied the title alone, after the task was created, left
\* a description and a status that earlier edits had set
C19_Witness ==
  /\ last.op = "edit_task"
  /\ last.outcome = "returned"
  /\ last.name = TITLE_U
  /\ tasks[last.id].name = TITLE_U
  /\ tasks[last.id].description = DESCRIPTION_d
  /\ tasks[last.id].status = "in-progress"
  /\ tasks[last.id].created_at < tasks[last.id].updated_at
  /\ \E j \in DOMAIN tasks : j # last.id

\* The arguments of the create_task call pass the validators
ValidCreateArguments(c) ==
  /\ validate_name(c.name, NameMaxWords).ok
  /\ validate_description(c.description, DescriptionMaxWords).ok
  /\ c.status # None => validate_status(c.status).ok
  /\ c.due_date \notin {None, <<>>} => validate_date(c.due_date).ok
  /\ c.done = {FALSE}

\* C20: for an existing project and valid title, description, status and
\* deadline (the done flag left at False), create_task succeeds and adds
\* exactly one task with a fresh id to that project; the task has the given
\* title and description, the parsed deadline and the status of the token
\* (doing stored as in-progress, to-do when none is given); no other task
\* changes.
C20_CreateTaskStoresArguments ==
  [][(/\ last'.op = "create_task"
      /\ last'.project_id \in DOMAIN projects
      /\ ValidCreateArguments(last'))
     =>
      /\ last'.outcome = "returned"
      /\ last'.id \notin DOMAIN tasks
      /\ DOMAIN tasks' = DOMAIN tasks \cup {last'.id}
      /\ \A j \in DOMAIN tasks : tasks'[j] = tasks[j]
      /\ projects' = projects
      /\ tasks'[last'.id].id = last'.id
      /\ tasks'[last'.id].project_id = last'.project_id
      /\ tasks'[last'.id].name = last'.name
      /\ tasks'[last'.id].description = last'.description
      /\ tasks'[last'.id].deadline =
           IF last'.due_date \in {None, <<>>} THEN Null
           ELSE validate_date(last'.due_date).date
      /\ tasks'[last'.id].status =
           IF last'.status = None THEN "to-do"
           ELSE CanonicalStatus(Lower(last'.status))]_vars

\* create_task with the token Doing and the date 2024-1-1 added a second task
C20_Witness ==
  /\ last.op = "create_task"
  /\ last.outcome = "returned"
  /\ last.status = TOKEN_DOING_MIXED
  /\ tasks[last.id].status = "in-progress"
  /\ tasks[last.id].deadline = {0}
  /\ tasks[last.id].description = DESCRIPTION_d
  /\ \E j \in DOMAIN tasks : j # last.id

(***************************************************************************)
(* SpecOrder: create_task calls with any number of invalid arguments       *)
(***************************************************************************)
NextOrder ==
  \/ create_project(NAME_P, None)
  \/ \E project_id \in 1..2, title \in {TITLE_T, NAME_EMPTY},
        due_date \in {None, DATE_BAD}, description \in {None, DESCRIPTION_LONG},
        status \in {None, TOKEN_UNKNOWN} :
       create_task(project_id, title, due_date, description, status, FALSE)
  \/ \E task_id \in 1..MaxTaskId : delete_task(1, task_id)
  \/ delete_project(1)

SpecOrder == InitClock /\ [][NextOrder]_vars

(***************************************************************************)
(* Properties of the errors                                                *)
(***************************************************************************)
\* The first error of a sequence of check results, "None" when all passed
RECURSIVE FirstFailure(_)
FirstFailure(errors) ==
  IF errors = <<>> THEN "None"
  ELSE IF Head(errors) # "None" THEN Head(errors)
  ELSE FirstFailure(Tail(errors))

\* The result of each check of create_task on its own, in the order project
\* existence, title, description, status, deadline
CreateTaskChecks(c) ==
  << IF c.project_id \in DOMAIN projects THEN "None"
       ELSE "Project with ID not found",
     IF c.name # <<>> /\ ~IsBlank(c.name) /\ WordCount(c.name) <= NameMaxWords
       THEN "None"
       ELSE IF c.name = <<>> \/ IsBlank(c.name) THEN "Name cannot be empty"
       ELSE "Name must be less than max_words words",
     IF c.description = None \/ WordCount(c.description) <= DescriptionMaxWords
       THEN "None" ELSE "Description must be less than max_words words",
     IF c.status = None \/ Lower(c.status) \in {TOKEN_TODO, TOKEN_DOING, TOKEN_DONE}
       THEN "None" ELSE "Invalid status. Must be one of: to-do, doing, done",
     IF c.due_date \in {None, <<>>} \/ validate_date(c.due_date).ok
       THEN "None" ELSE "Invalid date format. Use YYYY-MM-DD" >>

\* C21: the error a create_task call reports is that of the first failing
\* check in the order project existence, title, description, status,
\* deadline, however many of its arguments are invalid; the call succeeds
\* when no check fails.
C21_FirstFailureWins ==
  last.op = "create_task" =>
    /\ last.error = FirstFailure(CreateTaskChecks(last))
    /\ last.outcome = "raised" <=> last.error # "None"

\* A call with an invalid description, status and deadline on a stored
\* project reported the description
C21_Witness ==
  /\ last.op = "create_task"
  /\ last.project_id \in DOMAIN projects
  /\ last.description = DESCRIPTION_LONG
  /\ last.status = TOKEN_UNKNOWN
  /\ last.due_date = DATE_BAD
  /\ last.name = TITLE_T
  /\ last.error = "Description must be less than max_words words"

\* The errors that say a project or task is absent or not of the project
NotFoundErrors ==
  {"Project with ID not found", "Task with ID not found",
   "Task does not belong to project"}

\* C22: a service call given a project or task id that does not exist, or a
\* task that is not of the stated project, fails with an error of the
\* NotFound kind, which is not the kind of validation failures.
C22_NotFoundKind ==
  (last.outcome = "raised" /\ last.error \in NotFoundErrors) =>
    (last.kind = "NotFoundError" /\ last.kind # "ValidationError")

(***************************************************************************)
(* SpecTime: a project and its tasks edited and auto-closed while time     *)
(* passes                                                                  *)
(***************************************************************************)
NextTime ==
  \/ create_project(NAME_P, None)
  \/ edit_project(1, None, DESCRIPTION_d)
  \/ create_task(1, TITLE_T, DATE_2023_12_31, None, None, FALSE)
  \/ edit_task(1, 1, TITLE_U, None, None, None, Null)
  \/ auto_close_overdue("none")
  \/ Tick

SpecTime == InitClock /\ [][NextTime]_vars

(***************************************************************************)
(* Properties of the timestamps and of the frame of auto-close             *)
(***************************************************************************)
\* created_at is kept and updated_at does not go back, for the rows of a
\* table that stay stored over a step
TimestampsKept(old, new) ==
  \A i \in DOMAIN old \cap DOMAIN new :
    /\ new[i].created_at = old[i].created_at
    /\ new[i].updated_at >= old[i].updated_at
    /\ new[i].updated_at >= new[i].created_at

C24_AutoCloseFrame ==
  [][last'.op \in AutoCloseOps =>
       /\ projects' = projects
       /\ DOMAIN tasks' = DOMAIN tasks
       /\ \A i \in DOMAIN tasks :
            /\ [tasks'[i] EXCEPT !.status = tasks[i].status,
                                 !.updated_at = tasks[i].updated_at] = tasks[i]
            /\ tasks'[i] # tasks[i] =>
                 (tasks[i].status # "done" /\ tasks'[i].status = "done")]_vars

\* A run closed a task that has a deadline and left another task as it was
C24_Witness ==
  /\ AutoCloseRan
  /\ last.ret = 1
  /\ \E i, j \in DOMAIN tasks :
       /\ i # j
       /\ last.pre_tasks[i].status # "done" /\ tasks[i].status = "done"
       /\ tasks[i].deadline # {}
       /\ tasks[j] = last.pre_tasks[j]

(***************************************************************************)
(* SpecLoop: the scheduler loop given either job, under store failures and *)
(* an interrupt                                                            *)
(***************************************************************************)
NextLoop ==
  \/ create_project(NAME_P, None)
  \/ create_task(1, TITLE_T, DATE_2024_01_01, None, None, FALSE)
  \/ \E job_func \in JobFuncs : scheduler_run_scheduler(job_func)
  \/ run_pending
  \/ \E fault \in {"none", "commit"} : job_commit(fault)
  \/ \E fault \in Faults : scheduler_run_pending(fault)
  \/ interrupt
  \/ Tick

SpecLoop == InitClock /\ [][NextLoop]_vars

(***************************************************************************)
(* SpecLive: the scheduler loop of commands/autoclose_overdue.py running   *)
(* for ever: time passes, a due job is run, a run ends, and the store      *)
(* does not refuse every commit                                            *)
(***************************************************************************)
NextLive ==
  \/ create_project(NAME_P, None)
  \/ \E due_date \in {DATE_2023_12_31, DATE_2024_01_01} :
       create_task(1, TITLE_T, due_date, None, None, FALSE)
  \/ run_scheduler
  \/ run_pending
  \/ \E fault \in {"none", "commit"} : job_commit(fault)
  \/ Elapse

SpecLive ==
  /\ InitClock
  /\ [][NextLive]_vars
  /\ WF_vars(Elapse)
  /\ WF_vars(run_pending)
  /\ WF_vars(\E fault \in {"none", "commit"} : job_commit(fault))
  /\ SF_vars(job_commit("none"))

(***************************************************************************)
(* Properties of the scheduler loop                                        *)
(***************************************************************************)
\* C25: a scheduled run that raises or meets a store failure does not end
\* the scheduler loop.
C25_LoopSurvivesFailure ==
  (last.op \in AutoCloseOps /\ last.fault # "none") => sched.state # "stopped"

\* C26: when the loop has stopped on an interrupt, the batch that was in
\* flight at that moment has been committed: every task it had selected is
\* done.
C26_CleanShutdown ==
  (sched.state = "stopped" /\ last.outcome = "interrupted") =>
    \A i \in sess["scheduler"].selected \cap DOMAIN tasks :
      tasks[i].status = "done"

\* C27: while the scheduler loop runs, a stored task that is overdue is
\* eventually done (no task is edited or deleted in this specification).
C27_OverdueEventuallyDone ==
  \A i \in 1..MaxTaskId :
    (sched.state # "off" /\ i \in DOMAIN tasks /\ WasOverdue(tasks[i], clock))
      ~> (i \in DOMAIN tasks /\ tasks[i].status = "done")

\* The scheduled job has closed an overdue task at the last clock value of
\* the model and waits for its next run
C27_Witness ==
  /\ last.op = "autoclose_overdue_tasks"
  /\ last.outcome = "returned"
  /\ last.fault = "none"
  /\ last.ret >= 1
  /\ last.prev_close = {}
  /\ sched.next_run > MaxClock
  /\ \E i \in DOMAIN tasks : tasks[i].status = "done"

(***************************************************************************)
(* SpecRead: the read operations over stores built at different times      *)
(***************************************************************************)
NextRead ==
  \/ \E name \in {NAME_a, NAME_b} : create_project(name, None)
  \/ \E project_id \in 1..2 :
       create_task(project_id, TITLE_T, None, None, None, FALSE)
  \/ delete_task(1, 1)
  \/ delete_project(1)
  \/ \E project_id \in 1..MaxProjectId, task_id \in 1..MaxTaskId :
       get_task(project_id, task_id)
  \/ \E project_id \in 1..MaxProjectId : list_tasks(project_id)
  \/ list_projects
  \/ Tick

SpecRead == InitClock /\ [][NextRead]_vars

\* The store a read operation must leave alone
store == <<projects, tasks, nextProjectId, nextTaskId>>

\* The ids of a list, each once, in ascending order of created_at
ListsOnceAscending(listed, tbl, ids) ==
  /\ Len(listed) = Cardinality(ids)
  /\ {listed[k] : k \in 1..Len(listed)} = ids
  /\ \A j, k \in 1..Len(listed) :
       j < k => tbl[listed[j]].created_at <= tbl[listed[k]].created_at

\* C28: get_task returns the task exactly when it is stored and belongs to
\* the given project, returns absence without raising in every other case,
\* and leaves the store unchanged.
C28_GetTask ==
  [][last'.op = "get_task" =>
       /\ last'.outcome = "returned"
       /\ IF last'.id \in DOMAIN tasks /\ tasks[last'.id].project_id = last'.project_id
            THEN last'.row = {tasks[last'.id]}
            ELSE last'.row = {}
       /\ store' = store]_vars

\* get_task was asked for a stored task under a stored project that does not
\* own it, and after that for a task under its own project
C28_Witness ==
  /\ last.op = "get_task"
  /\ last.id \in DOMAIN tasks
  /\ last.project_id \in DOMAIN projects
  /\ tasks[last.id].project_id # last.project_id
  /\ last.row = {}

\* C29: list_tasks fails with not-found when the project is not stored, and
\* otherwise returns exactly the tasks of that project, each once, in
\* ascending order of creation time.
C29_ListTasks ==
  last.op = "list_tasks" =>
    IF last.project_id \notin DOMAIN projects
      THEN last.outcome = "raised" /\ last.error = "Project with ID not found"
      ELSE /\ last.outcome = "returned"
           /\ ListsOnceAscending(last.listed, tasks, {i \in DOMAIN tasks : tasks[i].project_id = last.project_id})

\* list_tasks returned the later of two tasks, the earlier one being a task
\* of another project
C29_Witness ==
  /\ last.op = "list_tasks"
  /\ last.outcome = "returned"
  /\ Len(last.listed) = 1
  /\ \E i \in DOMAIN tasks :
       /\ tasks[i].project_id # last.project_id
       /\ tasks[i].created_at < tasks[last.listed[1]].created_at

\* C30: list_projects returns every stored project once in ascending order
\* of creation time, each with the number of stored tasks of that project.
C30_ListProjects ==
  last.op = "list_projects" =>
    /\ last.outcome = "returned"
    /\ ListsOnceAscending(last.listed, projects, DOMAIN projects)
    /\ Len(last.counts) = Len(last.listed)
    /\ \A k \in 1..Len(last.listed) :
         last.counts[k] = Cardinality({i \in DOMAIN tasks : tasks[i].project_id = last.listed[k]})

\* list_projects returned two projects created at different times with
\* different task counts
C30_Witness ==
  /\ last.op = "list_projects"
  /\ Len(last.listed) = 2
  /\ projects[last.listed[1]].created_at < projects[last.listed[2]].created_at
  /\ last.counts[1] # last.counts[2]
  /\ last.counts[2] > 0

(***************************************************************************)
(* The name columns: nullable=False in models/project.py and               *)
(* models/task.py, and the validation of every service that writes a name  *)
(***************************************************************************)
\* Mutant: the name columns accept NULL
InsertErrorNullable(row) == "None"

\* The NOT NULL constraint on name at the flush of an INSERT
InsertError(row) == IF row.name = None THEN "IntegrityError" ELSE "None"

\* db.add(Project(name=name, description=description)); db.commit()
add_project(name, description) ==
  /\ nextProjectId <= MaxProjectId
  /\ LET row == Project(nextProjectId, name, description, clock)
         call == [NoCall EXCEPT !.name = name, !.description = description,
                                !.pre_projects = projects, !.pre_tasks = tasks,
                                !.now = clock, !.since_close = last.since_close]
     IN IF InsertError(row) = "None"
          THEN /\ projects' = projects @@ (nextProjectId :> row)
               /\ nextProjectId' = nextProjectId + 1
               /\ last' = [call EXCEPT !.op = "add_project",
                                       !.outcome = "returned", !.id = nextProjectId]
          ELSE /\ last' = [call EXCEPT !.op = "add_project", !.outcome = "raised",
                                       !.error = InsertError(row),
                                       !.kind = ExceptionClass(InsertError(row))]
               /\ UNCHANGED <<projects, nextProjectId>>
  /\ UNCHANGED <<tasks, nextTaskId, clock, sess, sched>>

\* db.add(Task(name=name, description=..., project_id=project_id)); db.commit()
add_task(name, project_id) ==
  /\ nextTaskId <= MaxTaskId
  /\ project_id \in DOMAIN projects
  /\ LET row == Task(nextTaskId, name, project_id, Null, None, TODO, clock)
         call == [NoCall EXCEPT !.name = name, !.project_id = project_id,
                                !.pre_projects = projects, !.pre_tasks = tasks,
                                !.now = clock]
     IN IF InsertError(row) = "None"
          THEN /\ tasks' = tasks @@ (nextTaskId :> row)
               /\ nextTaskId' = nextTaskId + 1
               /\ last' = [call EXCEPT !.op = "add_task",
                                       !.outcome = "returned", !.id = nextTaskId]
          ELSE /\ last' = [call EXCEPT !.op = "add_task", !.outcome = "raised",
                                       !.error = InsertError(row),
                                       !.kind = ExceptionClass(InsertError(row)),
                                       !.since_close = last.since_close]
               /\ UNCHANGED <<tasks, nextTaskId>>
  /\ UNCHANGED <<projects, nextProjectId, clock, sess, sched>>

NAME_BLANK == <<" ", "\t">>
NAME_30_WORDS == [i \in 1..(2 * NameMaxWords - 1) |-> IF i % 2 = 1 THEN "a" ELSE " "]
NAME_31_WORDS == [i \in 1..(2 * NameMaxWords + 1) |-> IF i % 2 = 1 THEN "b" ELSE " "]

\* The names given to the create operations: valid, empty, blank, absent, of
\* exactly the largest number of words and of one word more
NamesTried == {NAME_P, NAME_EMPTY, NAME_BLANK, None, NAME_30_WORDS, NAME_31_WORDS}

(***************************************************************************)
(* SpecNames: every way a name reaches the store                           *)
(***************************************************************************)
NextNames ==
  \/ \E name \in NamesTried \ {NAME_30_WORDS} : create_project(name, None)
  \/ \E name \in {NAME_a, NAME_BLANK, NAME_31_WORDS} : edit_project(1, name, None)
  \/ \E title \in NamesTried : create_task(1, title, None, None, None, FALSE)
  \/ \E title \in {TITLE_U, NAME_EMPTY, NAME_31_WORDS} :
       edit_task(1, 1, title, None, None, None, Null)
  \/ \E name \in {None, NAME_a} : add_project(name, DESCRIPTION_d)
  \/ \E name \in {None, TITLE_U} : add_task(name, 1)

SpecNames == InitClock /\ [][NextNames]_vars

\* A name that is present, not empty, not only whitespace and of at most
\* 30 words
StorableName(name) ==
  /\ name # None
  /\ \E i \in 1..Len(name) : name[i] \notin Whitespace
  /\ WordCount(name) <= 30

\* C31: every stored project and task has a name that is non-empty, not
\* whitespace-only and at most 30 words long; persisting a row without a
\* name fails and stores nothing.
C31_StoredNamesValid ==
  /\ \A i \in DOMAIN projects : StorableName(projects[i].name)
  /\ \A i \in DOMAIN tasks : StorableName(tasks[i].name)
  /\ (last.op \in {"add_project", "add_task"} /\ last.name = None) =>
       /\ last.outcome = "raised"
       /\ last.kind = "IntegrityError"
       /\ projects = last.pre_projects
       /\ tasks = last.pre_tasks

\* A task without a name was refused while a task of 30 words is stored
C31_Witness ==
  /\ last.op = "add_task"
  /\ last.outcome = "raised"
  /\ \E i \in DOMAIN tasks : WordCount(tasks[i].name) = 30

(***************************************************************************)
(* SpecValidator: validate_name and validate_description called on their   *)
(* own                                                                     *)
(***************************************************************************)
DESCRIPTION_150_WORDS == [i \in 1..(2 * DescriptionMaxWords - 1) |-> IF i % 2 = 1 THEN "d" ELSE "\n"]

MaxTextLen == 3

\* Every text of up to MaxTextLen characters over a letter and two kinds of
\* whitespace, the absent text, and texts at and just over the default limits
Texts ==
  UNION {[1..n -> {"a", " ", "\n"}] : n \in 0..MaxTextLen}
    \cup {None, NAME_30_WORDS, NAME_31_WORDS, DESCRIPTION_150_WORDS, DESCRIPTION_LONG}

WordLimits == {1, 2, NameMaxWords, DescriptionMaxWords}

Validator_validate_name(name, max_words) ==
  /\ last' = [NoCall EXCEPT !.op = "validate_name", !.outcome = "returned",
                            !.name = name, !.max_words = max_words,
                            !.error = validate_name(name, max_words).error]
  /\ UNCHANGED <<projects, tasks, nextProjectId, nextTaskId, clock, sess, sched>>

Validator_validate_description(description, max_words) ==
  /\ last' = [NoCall EXCEPT !.op = "validate_description", !.outcome = "returned",
                            !.description = description, !.max_words = max_words,
                            !.error = validate_description(description, max_words).error]
  /\ UNCHANGED <<projects, tasks, nextProjectId, nextTaskId, clock, sess, sched>>

NextValidator ==
  \/ \E name \in Texts, max_words \in WordLimits :
       Validator_validate_name(name, max_words)
  \/ \E description \in Texts, max_words \in WordLimits :
       Validator_validate_description(description, max_words)

SpecValidator == InitClock /\ [][NextValidator]_vars

\* The whitespace-separated words of a text, counted by their last characters
Words(text) ==
  Cardinality({i \in 1..Len(text) :
                 /\ text[i] \notin Whitespace
                 /\ (i = Len(text) \/ text[i + 1] \in Whitespace)})

\* C32: validate_name succeeds exactly when the name has at least one and at
\* most max_words words; validate_description succeeds exactly when the
\* description is absent, empty, whitespace-only or of at most max_words
\* words.
C32_ValidatorsExact ==
  /\ last.op = "validate_name" =>
       (last.error = "None" <=>
          (last.name # None /\ Words(last.name) \in 1..last.max_words))
  /\ last.op = "validate_description" =>
       (last.error = "None" <=>
          \/ last.description = None
          \/ last.description = <<>>
          \/ \A i \in 1..Len(last.description) : last.description[i] \in Whitespace
          \/ Words(last.description) <= last.max_words)

\* A name of exactly max_words = 30 words was accepted
C32_Witness ==
  /\ last.op = "validate_name"
  /\ last.max_words = NameMaxWords
  /\ Words(last.name) = NameMaxWords
  /\ last.error = "None"

(***************************************************************************)
(* The task repositories (repositories/task_repository.py).  Both are read *)
(* over the rows of the tasks table: the in-memory repository keeps Task   *)
(* objects of the same shape in a dictionary                               *)
(***************************************************************************)
TaskRepositories == {"InMemoryTaskRepository", "SqlAlchemyTaskRepository"}

\* InMemoryTaskRepository.list_overdue: task.deadline and task.deadline < now
InMemoryTaskRepository_list_overdue(tdb, now) ==
  {i \in DOMAIN tdb : tdb[i].deadline # Null /\ \E d \in tdb[i].deadline : d < now}

\* SqlAlchemyTaskRepository.list_overdue: filter(Task.deadline < now); the
\* comparison with a NULL deadline is not true
SqlAlchemyTaskRepository_list_overdue(tdb, now) ==
  {i \in DOMAIN tdb : \E d \in tdb[i].deadline : d < now}

list_overdue(repository, now) ==
  /\ last' = [Returned("list_overdue", last.since_close)
                EXCEPT !.now = now, !.repository = repository,
                       !.selected =
                         IF repository = "InMemoryTaskRepository"
                           THEN InMemoryTaskRepository_list_overdue(tasks, now)
                           ELSE SqlAlchemyTaskRepository_list_overdue(tasks, now)]
  /\ UNCHANGED <<projects, tasks, nextProjectId, nextTaskId, clock, sess, sched>>

(***************************************************************************)
(* SpecRepository: list_overdue over tasks with and without a deadline,    *)
(* done and not done                                                       *)
(***************************************************************************)
NextRepository ==
  \/ create_project(NAME_P, None)
  \/ \E due_date \in {None, DATE_2023_12_31, DATE_2024_01_01}, done \in BOOLEAN :
       create_task(1, TITLE_T, due_date, None, None, done)
  \/ delete_task(1, 1)
  \/ \E repository \in TaskRepositories, now \in 0..MaxClock :
       list_overdue(repository, now)
  \/ Tick

SpecRepository == InitClock /\ [][NextRepository]_vars

\* C33: list_overdue(now) returns exactly the tasks whose deadline is
\* strictly before now and whose status is not done, in both repositories.
C33_ListOverdueExact ==
  last.op = "list_overdue" =>
    last.selected = {i \in DOMAIN tasks : WasOverdue(tasks[i], last.now)}

(***************************************************************************)
(* Concurrent auto-close runs                                              *)
(***************************************************************************)
\* The tasks whose committed status a step changed to done
BecameDone(before, after) ==
  {i \in DOMAIN before \cap DOMAIN after :
     before[i].status # DONE /\ after[i].status = DONE}

\* C34: the count a committed auto-close run returns is the number of tasks
\* its commit changed to done, so that no task is counted by two runs.
C34_CountsOnlyClosed ==
  (last.op \in AutoCloseOps /\ last.outcome = "returned" /\ last.fault = "none") =>
    last.ret = Cardinality(BecameDone(last.pre_tasks, tasks))

(***************************************************************************)
(* SpecEditRace: edit_task between the query and the commit of an          *)
(* auto-close run                                                          *)
(***************************************************************************)
DATE_2024_01_02 == <<"2","0","2","4","-","0","1","-","0","2">>

NextEditRace ==
  \/ create_project(NAME_P, None)
  \/ create_task(1, TITLE_T, DATE_2023_12_31, None, None, FALSE)
  \/ edit_task(1, 1, None, None, None, DATE_2024_01_02, Null)
  \/ edit_task(1, 1, None, None, TOKEN_DOING, None, Null)
  \/ auto_close_select("w1")
  \/ auto_close_commit("w1")
  \/ Tick

SpecEditRace == InitClock /\ [][NextEditRace]_vars

\* C35: an auto-close run changes to done only tasks whose committed state,
\* as its commit finds it, is still overdue at the run's reference time; so
\* an edit committed after the run's query is not overwritten.
C35_NoStaleClose ==
  (last.op = "auto_close_overdue" /\ last.outcome = "returned") =>
    \A i \in BecameDone(last.pre_tasks, tasks) :
      \A T \in last.since_close : WasOverdue(last.pre_tasks[i], T)

(***************************************************************************)
(* Concurrent create_project calls with names equal ignoring case          *)
(***************************************************************************)
\* C36: a create_project call that commits leaves no other stored project
\* with a name equal to its own ignoring case, also when another call ran
\* between its check and its commit.
C36_OneOfEqualNamesSucceeds ==
  (last.op = "create_project" /\ last.outcome = "returned") =>
    \A i \in DOMAIN projects \ {last.id} :
      Lower(projects[i].name) # Lower(last.name)

(***************************************************************************)
(* create_task in a session of its own, beside delete_project.  The store  *)
(* is the configured PostgreSQL database, which enforces the foreign key   *)
(* of tasks.project_id                                                     *)
(***************************************************************************)
\* Mutant: the store does not enforce the foreign key
InsertTaskErrorUnenforced(pdb, project_id) == "None"

\* ForeignKey("projects.id") at the INSERT of a task
InsertTaskError(pdb, project_id) ==
  IF project_id \notin DOMAIN pdb THEN "IntegrityError" ELSE "None"

\* create_task up to its last check
create_task_check(p, project_id, title) ==
  /\ sess[p].pc = "idle"
  /\ nextTaskId <= MaxTaskId
  /\ LET error == CreateTaskError(projects, project_id, title, None, None, None)
     IN IF error = "None"
          THEN /\ sess' = [sess EXCEPT ![p] =
                     [Idle EXCEPT !.pc = "checked", !.op = "create_task",
                                  !.name = title, !.project_id = project_id]]
               /\ last' = [Call("create_task", "checked", "None", last.since_close)
                             EXCEPT !.name = title, !.project_id = project_id]
          ELSE /\ last' = [Raised("create_task", error)
                             EXCEPT !.name = title, !.project_id = project_id]
               /\ UNCHANGED sess
  /\ UNCHANGED <<projects, tasks, nextProjectId, nextTaskId, clock, sched>>

\* create_task from db.add to its return or to the except clause; the id a
\* refused INSERT drew from the sequence is not given again
create_task_commit(p) ==
  /\ sess[p].pc = "checked"
  /\ sess[p].op = "create_task"
  /\ LET error == InsertTaskError(projects, sess[p].project_id)
     IN IF error = "None"
          THEN /\ tasks' = tasks @@
                     (nextTaskId :> Task(nextTaskId, sess[p].name, sess[p].project_id,
                                         Null, None, TODO, clock))
               /\ last' = [Returned("create_task", Null)
                             EXCEPT !.id = nextTaskId, !.name = sess[p].name,
                                    !.project_id = sess[p].project_id]
          ELSE /\ last' = [Raised("create_task", error)
                             EXCEPT !.name = sess[p].name,
                                    !.project_id = sess[p].project_id]
               /\ UNCHANGED tasks
  /\ nextTaskId' = nextTaskId + 1
  /\ sess' = [sess EXCEPT ![p] = Idle]
  /\ UNCHANGED <<projects, nextProjectId, clock, sched>>

(***************************************************************************)
(* SpecOrphan: create_task racing with delete_project                      *)
(***************************************************************************)
NextOrphan ==
  \/ create_project(NAME_P, None)
  \/ \E p \in Workers, project_id \in 1..2 : create_task_check(p, project_id, TITLE_T)
  \/ \E p \in Workers : create_task_commit(p)
  \/ \E project_id \in 1..2 : delete_project(project_id)

SpecOrphan == InitClock /\ [][NextOrphan]_vars

\* C37: no committed state holds a task whose project is not stored, also
\* when create_task and delete_project of that project interleave.
C37_NoOrphanTask ==
  {tasks[i].project_id : i \in DOMAIN tasks} \subseteq DOMAIN projects

\* A create_task call passed its checks, its project was deleted, and its
\* insert was refused
C37_Witness ==
  /\ last.op = "create_task"
  /\ last.outcome = "raised"
  /\ last.kind = "IntegrityError"
  /\ last.project_id \notin DOMAIN projects

(***************************************************************************)
(* Tasks without a deadline                                                *)
(***************************************************************************)
\* C38: no step of an auto-close run changes or removes a task that has no
\* deadline, whatever its status and the reference time.
C38_NoDeadlineUntouched ==
  [][last'.op \in AutoCloseOps =>
       \A i \in DOMAIN tasks :
         tasks[i].deadline = Null => (i \in DOMAIN tasks' /\ tasks'[i] = tasks[i])]_vars

\* An auto-close run closed a task while a task without a deadline is
\* stored and not done
C38_Witness ==
  /\ last.op \in AutoCloseOps
  /\ last.outcome = "returned"
  /\ last.ret >= 1
  /\ \E i \in DOMAIN tasks : tasks[i].deadline = Null /\ tasks[i].status # DONE

(***************************************************************************)
(* edit_task and the status it was not asked to change                     *)
(***************************************************************************)
\* C39: an edit_task call without a status token leaves the status as it
\* found it when done is not given, and when done is False and the task is
\* not done.
C39_StatusOnlyAsAsked ==
  (/\ last.op = "edit_task"
   /\ last.outcome = "returned"
   /\ last.status = None
   /\ \/ last.done = Null
      \/ (last.done = Some(FALSE) /\ last.pre_status # Some(DONE)))
    => Some(tasks[last.id].status) = last.pre_status

(***************************************************************************)
(* The HTTP routers                                                        *)
(***************************************************************************)
\* C40: a service call that fails because of the caller's input is answered
\* with a client error: 404 for a missing project or task in delete_project
\* and delete_task, 400 or 409 otherwise, never a server error.
C40_ClientErrors ==
  (last.op \in Routes /\ last.outcome = "raised" /\ last.error # "store failure") =>
    IF last.op \in {"delete_project", "delete_task"}
      THEN last.http = 404
      ELSE last.http \in {400, 409}

====
